---- MODULE Spec2Model ----
(***************************************************************************)
(* A model of VMTranslator.py: the Hack VM -> Hack assembly translator.    *)
(*                                                                         *)
(*  - the code generator (ASMTranslator) emits assembly text; the text is  *)
(*    assembled and run on a model of the Hack CPU (SpecAsm);              *)
(*  - the peephole pass (Optimizer.optimize) rewrites a command list; the  *)
(*    list is run before and after on a reference VM (SpecOpt);            *)
(*  - the inlining pass (Optimizer.inline) replaces a call of an accessor; *)
(*    the caller is run before and after on the reference VM (SpecInline); *)
(*  - translate runs its inline, optimize and emission loops over the      *)
(*    functions reachable from Sys.init, each loop visiting a set in any   *)
(*    order (SpecTranslate), also on tables with a callee that is not      *)
(*    defined (SpecResolve);                                               *)
(*  - the parser reads a file line by line (SpecParse);                    *)
(*  - a compare-and-branch, as parsed and as fused by the peephole pass,   *)
(*    is lowered and run on the CPU (SpecFused);                           *)
(*  - a caller of accessors is inlined into, rewritten and lowered command *)
(*    by command, the emitter carrying its naming context (SpecContext);   *)
(*  - reachable_functions runs its worklist loop turn by turn (SpecReach). *)
(***************************************************************************)
EXTENDS Integers, Sequences, FiniteSets, TLC

VARIABLES
    rom,      \* SpecAsm: the assembled program (labels resolved)
    pc,       \* SpecAsm: ROM address of the next instruction
    prevpc,   \* SpecAsm: ROM address of the instruction executed last (-1: none)
    regA,     \* SpecAsm: the A register
    regD,     \* SpecAsm: the D register
    ram,      \* SpecAsm: data memory
    scn,      \* SpecAsm: the scenario (what was emitted, and the values drawn)
    functions,\* Preassembler.functions: name -> Function (filename, function_name,
              \* commands, dependencies)
    parsed,   \* the function table as parsed, before any optimizer pass
    vphase,   \* SpecOpt, SpecInline: "parsed", then "rewritten" once the pass has run
    mO,       \* the reference VM running Main.main as parsed
    mP,       \* the reference VM running Main.main as rewritten
    init_vm,  \* SpecTranslate: TRUE in directory mode, FALSE in single-file mode
    pending,  \* SpecTranslate: the names the running for-loop has yet to visit
    translator, \* SpecTranslate: the ASMTranslator (naming context and counters)
    out,      \* SpecTranslate: the instruction and label lines written so far
    fp,       \* SpecParse: the lines of the file not yet read
    returned, \* SpecParse: the Commands the parser has returned, in order
    pstate,   \* SpecParse: "open", "eof" (StopIteration) or "error"
    seen,     \* SpecReach: the set `seen` of reachable_functions
    frontier, \* SpecReach: the list `frontier` of reachable_functions
    expanded  \* SpecReach: the names whose dependencies were pushed, in order

cpuvars == <<rom, pc, prevpc, regA, regD, ram, scn>>
vmvars == <<functions, parsed, vphase, mO, mP>>
trvars == <<init_vm, pending, translator, out>>
reachvars == <<seen, frontier, expanded>>
auxvars == <<fp, returned, pstate, seen, frontier, expanded>>
vars == <<rom, pc, prevpc, regA, regD, ram, scn, functions, parsed, vphase, mO, mP,
          init_vm, pending, translator, out, fp, returned, pstate, seen, frontier,
          expanded>>

---------------------------------------------------------------------------
(* Bounds *)

\* data memory cells modelled: addresses 0 .. RamSize-1
RamSize == 272
\* largest argument count written at a call site
MaxArgs == 2
\* largest local-variable count of a function declaration
MaxVars == 2
\* longest command list (after the function declaration) given to the peephole pass
MaxLen == 3
\* most lines in a file given to the parser
MaxLines == 3
\* highest stack the reference VM grows
MaxStack == 6

\* the Hack word: 16 bits
W == 2^16

---------------------------------------------------------------------------
(* Assembly text.  One line is <<kind, text>>:                             *)
(*   <<"@", sym>>  an A-instruction '@sym' (sym a symbol or a decimal)     *)
(*   <<"C", txt>>  a C-instruction, txt as the generator writes it         *)
(*   <<"L", sym>>  a label line '(sym)'                                    *)

At(sym) == <<"@", sym>>
AtNum(n) == <<"@", ToString(n)>>
C(txt) == <<"C", txt>>
Lbl(sym) == <<"L", sym>>

\* '@%s' % (function_name)
function_call_address(function_name) == At(function_name)

\* '(%s)' % (self.function_name)
function_declaration_label(tr) == Lbl(tr.function_name)

\* The emitter state after construction.
ASMTranslator_init ==
    [filename |-> "", function_name |-> "", call_index |-> 0, label_index |-> 0]

\* label = '%s$ret.%d' % (function_name, call_index); call_index += 1
next_return_address_label(tr) ==
    [label |-> tr.function_name \o "$ret." \o ToString(tr.call_index),
     tr |-> [tr EXCEPT !.call_index = @ + 1]]

\* label = '%s.%s.%d' % (filename, name, label_index); label_index += 1
next_address_label(tr, name) ==
    [label |-> tr.filename \o "." \o name \o "." \o ToString(tr.label_index),
     tr |-> [tr EXCEPT !.label_index = @ + 1]]

_push_register(address) ==
    << At(address), C("D=M"), At("SP"), C("AM=M+1"), C("A=A-1"), C("M=D") >>

_push_registers4(a1, a2, a3, a4) ==
    _push_register(a1) \o _push_register(a2) \o _push_register(a3) \o _push_register(a4)

_pop_register_lcl(address) ==
    << At("LCL"), C("AM=M-1"), C("D=M"), At(address), C("M=D") >>

_pop_registers_lcl4(a1, a2, a3, a4) ==
    _pop_register_lcl(a1) \o _pop_register_lcl(a2) \o _pop_register_lcl(a3)
        \o _pop_register_lcl(a4)

_call(tr, function_name, args) ==
    LET r == next_return_address_label(tr) IN
    [asm |-> << function_call_address(function_name),
                C("D=A"),
                At("R13"),
                C("M=D"),
                AtNum(5 + args),
                C("D=A"),
                At("R14"),
                C("M=D"),
                At(r.label),
                C("D=A"),
                At("save_stack"),
                C("0; JMP"),
                Lbl(r.label) >>,
     tr |-> r.tr]

_call_ext(tr, function_name) ==
    LET r == next_return_address_label(tr) IN
    [asm |-> << At(r.label),
                C("D=A"),
                function_call_address(function_name),
                C("0; JMP"),
                Lbl(r.label) >>,
     tr |-> r.tr]

_save_stack(tr) ==
    LET r == next_address_label(tr, "save_stack") IN
    [asm |-> << Lbl("save_stack"),
                At("R15"),
                C("M=D"),
                At("R13"),
                C("D=M"),
                At("SP"),
                C("AM=M+1"),
                C("A=A-1"),
                C("M=D") >>
             \o _push_registers4("LCL", "ARG", "THIS", "THAT")
             \o << At("SP"),
                   C("D=M"),
                   At("R14"),
                   C("D=D-M"),
                   At("ARG"),
                   C("M=D"),
                   At("SP"),
                   C("D=M"),
                   At("LCL"),
                   C("M=D"),
                   At("R15"),
                   C("A=M"),
                   C("0; JMP") >>,
     tr |-> r.tr]

\* a pop_stack that fetches the return address only after the result has been
\* copied to ARG[0]
_pop_stack_late_return_address ==
    << Lbl("pop_stack"),
       At("SP"),
       C("A=M-1"),
       C("D=M"),
       At("ARG"),
       C("A=M"),
       C("M=D"),
       C("D=A+1"),
       At("SP"),
       C("M=D"),
       At("LCL"),
       C("D=M"),
       At("5"),
       C("A=D-A"),
       C("D=M"),
       At("R13"),
       C("M=D") >>
    \o _pop_registers_lcl4("THAT", "THIS", "ARG", "LCL")
    \o << At("R13"),
          C("A=M"),
          C("0; JMP") >>

_pop_stack ==
    << Lbl("pop_stack"),
       At("LCL"),
       C("D=M"),
       At("5"),
       C("A=D-A"),
       C("D=M"),
       At("R13"),
       C("M=D"),
       At("SP"),
       C("A=M-1"),
       C("D=M"),
       At("ARG"),
       C("A=M"),
       C("M=D"),
       C("D=A+1"),
       At("SP"),
       C("M=D") >>
    \o _pop_registers_lcl4("THAT", "THIS", "ARG", "LCL")
    \o << At("R13"),
          C("A=M"),
          C("0; JMP") >>

_return ==
    << At("pop_stack"), C("0; JMP") >>

\* 'M=0', 'AD=A+1' once per local variable
RECURSIVE ZeroVars(_)
ZeroVars(n) ==
    IF n = 0 THEN << >> ELSE << C("M=0"), C("AD=A+1") >> \o ZeroVars(n - 1)

_function(tr, function_name, nvars) ==
    LET tr1 == [tr EXCEPT !.function_name = function_name]
        setup == << function_declaration_label(tr1) >>
    IN  [asm |-> IF nvars = 0 THEN setup
                 ELSE setup \o << At("SP"), C("A=M") >> \o ZeroVars(nvars)
                            \o << At("SP"), C("M=D") >>,
         tr |-> tr1]

_function_ext(tr, function_name, nvars, args) ==
    LET r == next_return_address_label(tr)
        tr1 == [r.tr EXCEPT !.function_name = function_name]
        setup == << function_declaration_label(tr1) >>
                 \o (IF function_name # "Sys.init"
                     THEN << At("R13"),
                             C("M=D"),
                             AtNum(5 + args),
                             C("D=A"),
                             At("R14"),
                             C("M=D"),
                             At(r.label),
                             C("D=A"),
                             At("save_stack"),
                             C("0; JMP"),
                             Lbl(r.label) >>
                     ELSE << >>)
    IN  [asm |-> IF nvars = 0 THEN setup
                 ELSE setup \o << At("SP"), C("A=M") >> \o ZeroVars(nvars)
                            \o << At("SP"), C("M=D") >>,
         tr |-> tr1]

\* a prologue that jumps to Sys.init without setting SP
_init_vm_no_sp(tr) ==
    LET r == next_address_label(tr, "init_vm")
        s == _save_stack(r.tr)
    IN  [asm |-> << function_call_address("Sys.init"),
                    C("0; JMP") >> \o s.asm \o _pop_stack,
         tr |-> s.tr]

_init_vm(tr) ==
    LET r == next_address_label(tr, "init_vm")
        s == _save_stack(r.tr)
    IN  [asm |-> << At("256"),
                    C("D=A"),
                    At("SP"),
                    C("M=D"),
                    function_call_address("Sys.init"),
                    C("0; JMP") >> \o s.asm \o _pop_stack,
         tr |-> s.tr]

---------------------------------------------------------------------------
(* Segment lowering *)

_temp_register == 5

_memory_segments == [local |-> "LCL", argument |-> "ARG", this |-> "THIS", that |-> "THAT"]

_pointer_registers == << "THIS", "THAT" >>

\* '@%d' % (_temp_register + i)
temp_register(i) == AtNum(_temp_register + i)

\* '@%s' % _pointer_registers[i]
pointer_register(i) == At(_pointer_registers[i + 1])

\* '@%s' % _memory_segments[segment]
memory_segment_address(segment) == At(_memory_segments[segment])

\* '@%s.%d' % (self.filename, i)
static_address(tr, i) == At(tr.filename \o "." \o ToString(i))

\* ['A=A+1'] * n
RECURSIVE IncA(_)
IncA(n) == IF n <= 0 THEN << >> ELSE << C("A=A+1") >> \o IncA(n - 1)

\* load d register
_ldd(tr, segment, i) ==
    CASE segment = "constant" ->
            IF i = 0 THEN << C("D=0") >>
            ELSE IF i = 1 THEN << C("D=1") >>
            ELSE << AtNum(i), C("D=A") >>
      [] segment = "constant~" -> << AtNum(i), C("D=!A") >>
      [] segment = "constant-" -> << AtNum(i), C("D=-A") >>
      [] segment = "static" -> << static_address(tr, i), C("D=M") >>
      [] segment = "temp" -> << temp_register(i), C("D=M") >>
      [] segment = "pointer" -> << pointer_register(i), C("D=M") >>
      [] segment \in DOMAIN _memory_segments ->
            IF i = 0 THEN << memory_segment_address(segment), C("A=M"), C("D=M") >>
            ELSE IF i = 1 THEN << memory_segment_address(segment), C("A=M+1"), C("D=M") >>
            ELSE << memory_segment_address(segment), C("D=M"), AtNum(i), C("A=D+A"),
                    C("D=M") >>
      [] OTHER -> << C("???") >>

_push(tr, segment, i) ==
    LET value == IF segment = "constant"
                 THEN (IF i = 0 \/ i = 1 THEN << >> ELSE << AtNum(i), C("D=A") >>)
                 ELSE _ldd(tr, segment, i)
        op == IF segment = "constant" /\ i = 0 THEN "M=0"
              ELSE IF segment = "constant" /\ i = 1 THEN "M=1"
              ELSE "M=D"
    IN  value \o << At("SP"), C("AM=M+1"), C("A=A-1"), C(op) >>

\* store contents of d register in segment
_sdd(tr, segment, i) ==
    CASE segment = "static" -> << static_address(tr, i), C("M=D") >>
      [] segment = "temp" -> << temp_register(i), C("M=D") >>
      [] segment = "pointer" -> << pointer_register(i), C("M=D") >>
      [] segment \in DOMAIN _memory_segments ->
            IF i = 0 THEN << memory_segment_address(segment), C("A=M"), C("M=D") >>
            ELSE IF i < 10
            THEN << memory_segment_address(segment), C("A=M+1") >> \o IncA(i - 1)
                 \o << C("M=D") >>
            ELSE << At("R14"), C("M=D"), memory_segment_address(segment), C("D=M"),
                    AtNum(i), C("D=D+A"), At("R13"), C("M=D"), At("R14"), C("D=M"),
                    At("R13"), C("A=M"), C("M=D") >>
      [] OTHER -> << C("???") >>

_pop(tr, segment, i) ==
    << At("SP"), C("AM=M-1"), C("D=M") >> \o _sdd(tr, segment, i)

_tee(tr, segment, i) ==
    << At("SP"), C("A=M-1"), C("D=M") >> \o _sdd(tr, segment, i)

---------------------------------------------------------------------------
(* Arithmetic, comparison and branch lowering *)

label_address(tr, label) == At(tr.function_name \o "$" \o label)

label_label(tr, label) == Lbl(tr.function_name \o "$" \o label)

_add == << At("SP"), C("AM=M-1"), C("D=M"), C("A=A-1"), C("M=D+M") >>

_sub == << At("SP"), C("AM=M-1"), C("D=M"), C("A=A-1"), C("M=M-D") >>

_neg == << At("SP"), C("A=M-1"), C("M=-M") >>

_and == << At("SP"), C("AM=M-1"), C("D=M"), C("A=A-1"), C("M=M&D") >>

_or == << At("SP"), C("AM=M-1"), C("D=M"), C("A=A-1"), C("M=M|D") >>

_not == << At("SP"), C("A=M-1"), C("M=!M") >>

_eq(tr) ==
    LET r == next_address_label(tr, "JEQ")
    IN  [asm |-> << At("SP"), C("AM=M-1"), C("D=M"), C("A=A-1"), C("D=M-D"),
                    At(r.label), C("D; JEQ"), C("D=-1"), Lbl(r.label),
                    At("SP"), C("A=M-1"), C("M=!D") >>,
         tr |-> r.tr]

\* the text _lt, _lte, _gt and _gte share, `jump` being JLT, JLE, JGT or JGE
CompareText(r, jump) ==
    << At("SP"), C("AM=M-1"), C("D=M"), C("A=A-1"), C("D=M-D"),
       At(r.label), C("D=D; " \o jump), C("A=A+1"), C("D=0; JMP"), Lbl(r.label),
       C("D=-1"), At("SP"), C("A=M-1"), C("M=D") >>

_lt(tr) ==
    LET r == next_address_label(tr, "JLT")
    IN  [asm |-> CompareText(r, "JLT"), tr |-> r.tr]

_lte(tr) ==
    LET r == next_address_label(tr, "JLE")
    IN  [asm |-> CompareText(r, "JLE"), tr |-> r.tr]

_gt(tr) ==
    LET r == next_address_label(tr, "JGT")
    IN  [asm |-> CompareText(r, "JGT"), tr |-> r.tr]

_gte(tr) ==
    LET r == next_address_label(tr, "JGE")
    IN  [asm |-> CompareText(r, "JGE"), tr |-> r.tr]

_label(tr, label) == << label_label(tr, label) >>

_goto(tr, label) == << label_address(tr, label), C("0; JMP") >>

_if_goto(tr, label) ==
    << At("SP"), C("AM=M-1"), C("D=M"), label_address(tr, label), C("D; JNE") >>

_if_goto_not(tr, label) ==
    << At("SP"), C("AM=M-1"), C("D=M"), label_address(tr, label), C("D; JEQ") >>

\* the text the five if-<cmp>-goto methods share, `jump` being the jump of
\* the last line: the operand in D (nothing for constant 0 and 1), the top of
\* the stack popped into M, D = M - operand, the jump on D
FusedText(tr, segment, i, label, jump) ==
    LET load == IF segment = "constant"
                THEN (IF i = 0 \/ i = 1 THEN << >> ELSE << AtNum(i), C("D=A") >>)
                ELSE _ldd(tr, segment, i)
        op == IF segment = "constant" /\ i = 0 THEN "D=M"
              ELSE IF segment = "constant" /\ i = 1 THEN "D=M-1"
              ELSE "D=M-D"
    IN  load \o << At("SP"), C("AM=M-1"), C(op), label_address(tr, label),
                   C("D; " \o jump) >>

_if_eq_goto(tr, segment, i, label) == FusedText(tr, segment, i, label, "JEQ")

\* a lowering of if-lt-goto that jumps on JLE
_if_lt_goto_jle(tr, segment, i, label) == FusedText(tr, segment, i, label, "JLE")

_if_lt_goto(tr, segment, i, label) == FusedText(tr, segment, i, label, "JLT")

_if_lte_goto(tr, segment, i, label) == FusedText(tr, segment, i, label, "JLE")

_if_gt_goto(tr, segment, i, label) == FusedText(tr, segment, i, label, "JGT")

\* defined twice in the class, both times with this body
_if_gte_goto(tr, segment, i, label) == FusedText(tr, segment, i, label, "JGE")

\* an inline-return that leaves the naming context as it finds it
_inline_return_keep(tr, filename, function_name) == [asm |-> << >>, tr |-> tr]

\* meta ops: the naming context becomes the inlined function's, then the caller's
_inline_call(tr, filename, function_name) ==
    [asm |-> << >>,
     tr |-> [tr EXCEPT !.filename = filename, !.function_name = function_name]]

_inline_return(tr, filename, function_name) ==
    [asm |-> << >>,
     tr |-> [tr EXCEPT !.filename = filename, !.function_name = function_name]]

---------------------------------------------------------------------------
(* The assembler: symbols to addresses, label lines dropped *)

Predefined ==
    [SP |-> 0, LCL |-> 1, ARG |-> 2, THIS |-> 3, THAT |-> 4,
     R13 |-> 13, R14 |-> 14, R15 |-> 15]

\* the decimal numerals the generator writes, and the numbers they denote
Numerals == { ToString(n) : n \in 0 .. RamSize }
NumeralOf == [ s \in Numerals |-> CHOOSE n \in 0 .. RamSize : ToString(n) = s ]
IsNumeral(sym) == sym \in Numerals
NumeralValue(sym) == NumeralOf[sym]

HasLabel(text, sym) == \E i \in 1 .. Len(text) : text[i] = Lbl(sym)

\* the ROM address a label line stands for: the instructions before it
LabelAddr(text, sym) ==
    LET i == CHOOSE i \in 1 .. Len(text) : text[i] = Lbl(sym)
    IN  Cardinality({ j \in 1 .. i : text[j][1] # "L" })

\* a symbol that is neither a numeral, predefined nor a label is a variable
IsVarSym(text, sym) ==
    /\ ~IsNumeral(sym)
    /\ sym \notin DOMAIN Predefined
    /\ ~HasLabel(text, sym)

\* line i is the first use of a variable symbol
FirstUse(text, i) ==
    /\ text[i][1] = "@"
    /\ IsVarSym(text, text[i][2])
    /\ \A j \in 1 .. i - 1 : text[j] # text[i]

\* the assembler gives variables RAM 16, 17, ... in order of first use
VarAddr(text, sym) ==
    LET i == CHOOSE i \in 1 .. Len(text) : text[i] = At(sym)
    IN  15 + Cardinality({ j \in 1 .. i : FirstUse(text, j) })

Resolve(text, sym) ==
    IF IsNumeral(sym) THEN NumeralValue(sym)
    ELSE IF sym \in DOMAIN Predefined THEN Predefined[sym]
    ELSE IF HasLabel(text, sym) THEN LabelAddr(text, sym)
    ELSE VarAddr(text, sym)

\* the instructions of lines lo .. hi in order, label lines dropped, symbols
\* resolved
RECURSIVE AssembleRange(_, _, _)
AssembleRange(text, lo, hi) ==
    IF lo > hi THEN << >>
    ELSE IF lo = hi
    THEN (IF text[lo][1] = "L" THEN << >>
          ELSE IF text[lo][1] = "@" THEN << << "@", Resolve(text, text[lo][2]) >> >>
          ELSE << text[lo] >>)
    ELSE LET mid == (lo + hi) \div 2
         IN  AssembleRange(text, lo, mid) \o AssembleRange(text, mid + 1, hi)

Assemble(text) == AssembleRange(text, 1, Len(text))

---------------------------------------------------------------------------
(* The Hack CPU *)

\* dest=comp; jump of each C-instruction the generator writes
Decode(txt) ==
    CASE txt = "D=A" -> << "D", "A", "" >>
      [] txt = "D=M" -> << "D", "M", "" >>
      [] txt = "M=D" -> << "M", "D", "" >>
      [] txt = "A=M" -> << "A", "M", "" >>
      [] txt = "M=0" -> << "M", "0", "" >>
      [] txt = "M=1" -> << "M", "1", "" >>
      [] txt = "D=0" -> << "D", "0", "" >>
      [] txt = "D=1" -> << "D", "1", "" >>
      [] txt = "D=!A" -> << "D", "!A", "" >>
      [] txt = "D=-A" -> << "D", "-A", "" >>
      [] txt = "AM=M+1" -> << "AM", "M+1", "" >>
      [] txt = "AM=M-1" -> << "AM", "M-1", "" >>
      [] txt = "A=A-1" -> << "A", "A-1", "" >>
      [] txt = "A=A+1" -> << "A", "A+1", "" >>
      [] txt = "A=M-1" -> << "A", "M-1", "" >>
      [] txt = "A=M+1" -> << "A", "M+1", "" >>
      [] txt = "AD=A+1" -> << "AD", "A+1", "" >>
      [] txt = "D=A+1" -> << "D", "A+1", "" >>
      [] txt = "A=D-A" -> << "A", "D-A", "" >>
      [] txt = "A=D+A" -> << "A", "D+A", "" >>
      [] txt = "D=D+A" -> << "D", "D+A", "" >>
      [] txt = "D=D-M" -> << "D", "D-M", "" >>
      [] txt = "D=M-D" -> << "D", "M-D", "" >>
      [] txt = "D=M-1" -> << "D", "M-1", "" >>
      [] txt = "D=-1" -> << "D", "-1", "" >>
      [] txt = "M=!D" -> << "M", "!D", "" >>
      [] txt = "D=0; JMP" -> << "D", "0", "JMP" >>
      [] txt = "D=D; JLT" -> << "D", "D", "JLT" >>
      [] txt = "D=D; JLE" -> << "D", "D", "JLE" >>
      [] txt = "D=D; JGT" -> << "D", "D", "JGT" >>
      [] txt = "D=D; JGE" -> << "D", "D", "JGE" >>
      [] txt = "0; JMP" -> << "", "0", "JMP" >>
      [] txt = "D; JEQ" -> << "", "D", "JEQ" >>
      [] txt = "D; JNE" -> << "", "D", "JNE" >>
      [] txt = "D; JLT" -> << "", "D", "JLT" >>
      [] txt = "D; JLE" -> << "", "D", "JLE" >>
      [] txt = "D; JGT" -> << "", "D", "JGT" >>
      [] txt = "D; JGE" -> << "", "D", "JGE" >>

Alu(comp, a, d, m) ==
    CASE comp = "0" -> 0
      [] comp = "1" -> 1
      [] comp = "-1" -> W - 1
      [] comp = "!D" -> W - 1 - d
      [] comp = "A" -> a
      [] comp = "D" -> d
      [] comp = "M" -> m
      [] comp = "!A" -> W - 1 - a
      [] comp = "-A" -> (W - a) % W
      [] comp = "A+1" -> (a + 1) % W
      [] comp = "A-1" -> (a + W - 1) % W
      [] comp = "M+1" -> (m + 1) % W
      [] comp = "M-1" -> (m + W - 1) % W
      [] comp = "D+A" -> (d + a) % W
      [] comp = "D-A" -> (d + W - a) % W
      [] comp = "D-M" -> (d + W - m) % W
      [] comp = "M-D" -> (m + W - d) % W

\* a word as a two's-complement number
Signed(v) == IF v >= W \div 2 THEN v - W ELSE v

Jumps(jump, v) ==
    CASE jump = "" -> FALSE
      [] jump = "JMP" -> TRUE
      [] jump = "JEQ" -> v = 0
      [] jump = "JNE" -> v # 0
      [] jump = "JLT" -> Signed(v) < 0
      [] jump = "JLE" -> Signed(v) <= 0
      [] jump = "JGT" -> Signed(v) > 0
      [] jump = "JGE" -> Signed(v) >= 0

DestA(dest) == dest \in {"A", "AM", "AD", "AMD"}
DestD(dest) == dest \in {"D", "AD", "MD", "AMD"}
DestM(dest) == dest \in {"M", "AM", "MD", "AMD"}
ReadsM(comp) == comp \in {"M", "M+1", "M-1", "D-M", "M-D"}

\* the machine runs until it leaves the program, touches memory that is not
\* modelled, or has just executed one of the scenario's exit jumps
Running ==
    /\ pc \in 0 .. Len(rom) - 1
    /\ prevpc \notin scn.exits

CpuStep ==
    /\ Running
    /\ LET ins == rom[pc + 1] IN
       IF ins[1] = "@"
       THEN /\ regA' = ins[2]
            /\ pc' = pc + 1
            /\ UNCHANGED <<regD, ram>>
       ELSE LET dec == Decode(ins[2])
                dest == dec[1]
                comp == dec[2]
                jump == dec[3]
                touchesM == DestM(dest) \/ ReadsM(comp)
            IN  IF touchesM /\ regA \notin DOMAIN ram
                THEN /\ pc' = -1
                     /\ UNCHANGED <<regA, regD, ram>>
                ELSE LET m == IF ReadsM(comp) THEN ram[regA] ELSE 0
                         v == Alu(comp, regA, regD, m)
                     IN  /\ regA' = IF DestA(dest) THEN v ELSE regA
                         /\ regD' = IF DestD(dest) THEN v ELSE regD
                         /\ ram' = IF DestM(dest) THEN [ram EXCEPT ![regA] = v] ELSE ram
                         /\ pc' = IF Jumps(jump, v) THEN regA ELSE pc + 1
    /\ prevpc' = pc
    /\ UNCHANGED <<rom, scn>>
    /\ UNCHANGED vmvars
    /\ UNCHANGED trvars
    /\ UNCHANGED auxvars

---------------------------------------------------------------------------
(* Lowering one command, and one function.  A command is the tuple         *)
(* <<opcode, arg, ...>> of Command(command, *args).                        *)

\* Command.visit: the method named after the opcode.  [asm, tr]: the lines
\* returned and the emitter state left.
translate(tr, command) ==
    LET op == command[1] IN
    CASE op = "function" -> _function(tr, command[2], command[3])
      [] op = "function-ext" -> _function_ext(tr, command[2], command[3], command[4])
      [] op = "call" -> _call(tr, command[2], command[3])
      [] op = "call-ext" -> _call_ext(tr, command[2])
      [] op = "return" -> [asm |-> _return, tr |-> tr]
      [] op = "push" -> [asm |-> _push(tr, command[2], command[3]), tr |-> tr]
      [] op = "pop" -> [asm |-> _pop(tr, command[2], command[3]), tr |-> tr]
      [] op = "tee" -> [asm |-> _tee(tr, command[2], command[3]), tr |-> tr]
      [] op = "ldd" -> [asm |-> _ldd(tr, command[2], command[3]), tr |-> tr]
      [] op = "sdd" -> [asm |-> _sdd(tr, command[2], command[3]), tr |-> tr]
      [] op = "add" -> [asm |-> _add, tr |-> tr]
      [] op = "sub" -> [asm |-> _sub, tr |-> tr]
      [] op = "neg" -> [asm |-> _neg, tr |-> tr]
      [] op = "and" -> [asm |-> _and, tr |-> tr]
      [] op = "or" -> [asm |-> _or, tr |-> tr]
      [] op = "not" -> [asm |-> _not, tr |-> tr]
      [] op = "eq" -> _eq(tr)
      [] op = "lt" -> _lt(tr)
      [] op = "lte" -> _lte(tr)
      [] op = "gt" -> _gt(tr)
      [] op = "gte" -> _gte(tr)
      [] op = "label" -> [asm |-> _label(tr, command[2]), tr |-> tr]
      [] op = "goto" -> [asm |-> _goto(tr, command[2]), tr |-> tr]
      [] op = "if-goto" -> [asm |-> _if_goto(tr, command[2]), tr |-> tr]
      [] op = "if-goto-not" -> [asm |-> _if_goto_not(tr, command[2]), tr |-> tr]
      [] op = "if-eq-goto" ->
            [asm |-> _if_eq_goto(tr, command[2], command[3], command[4]), tr |-> tr]
      [] op = "if-lt-goto" ->
            [asm |-> _if_lt_goto(tr, command[2], command[3], command[4]), tr |-> tr]
      [] op = "if-lte-goto" ->
            [asm |-> _if_lte_goto(tr, command[2], command[3], command[4]), tr |-> tr]
      [] op = "if-gt-goto" ->
            [asm |-> _if_gt_goto(tr, command[2], command[3], command[4]), tr |-> tr]
      [] op = "if-gte-goto" ->
            [asm |-> _if_gte_goto(tr, command[2], command[3], command[4]), tr |-> tr]
      [] op = "inline-call" -> _inline_call(tr, command[2], command[3])
      [] op = "inline-return" -> _inline_return(tr, command[2], command[3])

RECURSIVE translate_commands(_, _, _)
translate_commands(tr, commands, i) ==
    IF i > Len(commands) THEN [asm |-> << >>, tr |-> tr]
    ELSE LET one == translate(tr, commands[i])
             rest == translate_commands(one.tr, commands, i + 1)
         IN  [asm |-> one.asm \o rest.asm, tr |-> rest.tr]

\* Function.translate: the naming context is set to the function's, then each
\* command is lowered in order.
Function_translate(tr, f) ==
    translate_commands(
        [tr EXCEPT !.filename = f.filename, !.function_name = f.function_name],
        f.commands, 1)

---------------------------------------------------------------------------
(* SpecAsm: a two-function program translated in directory mode and run    *)

RECURSIVE PushConstants(_)
PushConstants(n) ==
    IF n = 0 THEN << >> ELSE PushConstants(n - 1) \o << << "push", "constant", n + 1 >> >>

\* Sys.init pushes `args` constants, calls Main.f and returns
SysInitFunction(ext, nvars, args) ==
    [filename |-> "Sys", function_name |-> "Sys.init",
     commands |-> << IF ext THEN << "function-ext", "Sys.init", nvars, 0 >>
                     ELSE << "function", "Sys.init", nvars >> >>
                  \o PushConstants(args)
                  \o << << "call", "Main.f", args >>, << "return" >> >>]

\* Main.f returns 8 (a body the inlining pass does not take for an accessor,
\* and that no peephole rule rewrites)
MainFunction(nvars) ==
    [filename |-> "Main", function_name |-> "Main.f",
     commands |-> << << "function", "Main.f", nvars >>,
                     << "push", "constant", 7 >>,
                     << "push", "constant", 8 >>,
                     << "return" >> >>]

\* translate(program, init_vm = True, ...): the prologue, then each function
ProgramText(ext, nvars, args, fvars) ==
    LET iv == _init_vm(ASMTranslator_init)
        f1 == Function_translate(iv.tr, SysInitFunction(ext, nvars, args))
        f2 == Function_translate(f1.tr, MainFunction(fvars))
    IN  iv.asm \o f1.asm \o f2.asm

\* the return-address label the call in Sys.init declares
CallSiteLabel(ext) == "Sys.init$ret." \o (IF ext THEN "1" ELSE "0")

\* ROM address of the last instruction of a routine that starts at label `sym`
\* and has `n` instructions
LastOf(text, sym, n) == LabelAddr(text, sym) + n - 1

Scenario(kind, text, ext, nvars, args, fvars) ==
    [kind |-> kind,
     ext |-> ext, nvars |-> nvars, args |-> args, fvars |-> fvars,
     sysInit |-> LabelAddr(text, "Sys.init"),
     entry |-> LabelAddr(text, "Main.f"),
     retLabel |-> LabelAddr(text, CallSiteLabel(ext)),
     initJump |-> LabelAddr(text, "save_stack") - 1,
     saveExit |-> LastOf(text, "save_stack", Len(_save_stack(ASMTranslator_init).asm) - 1),
     popExit |-> LastOf(text, "pop_stack", Len(_pop_stack) - 1),
     exits |-> IF kind = "boot"
               THEN { LastOf(text, "save_stack", Len(_save_stack(ASMTranslator_init).asm) - 1) }
               ELSE { LastOf(text, "pop_stack", Len(_pop_stack) - 1) }]

ZeroRam == [a \in 0 .. RamSize - 1 |-> 0]

\* values the segment pointers may hold when the program starts
PointerValues == {0, 300}

\* the machine at power-on: pc 0, the segment pointers holding anything
InitBoot ==
    \E ext \in BOOLEAN, nvars \in 0 .. MaxVars, args \in 0 .. MaxArgs :
        \E text \in { ProgramText(ext, nvars, args, 1) } :
        \E code \in { Assemble(text) } :
        \E sc \in { Scenario("boot", text, ext, nvars, args, 1) } :
            \E lcl0 \in PointerValues, arg0 \in PointerValues, that0 \in PointerValues :
                /\ rom = code
                /\ scn = sc @@ [lcl0 |-> lcl0, arg0 |-> arg0, this0 |-> 3000,
                                that0 |-> that0, ret0 |-> 0, result |-> 0, base |-> 0]
                /\ pc = 0
                /\ prevpc = -1
                /\ regA = 0
                /\ regD = 0
                /\ ram = [ZeroRam EXCEPT ![1] = lcl0, ![2] = arg0, ![3] = 3000,
                                         ![4] = that0]

\* first stack cell of the frames drawn for a return
StackBase == 256

\* Main.f about to return: its frame (return address, LCL, ARG, THIS, THAT)
\* lies directly below LCL, `args` arguments below that, the result on top
InitReturn ==
    \E args \in 0 .. MaxArgs, fvars \in 0 .. MaxVars :
        \E text \in { ProgramText(FALSE, 0, args, fvars) } :
        \E code \in { Assemble(text) } :
        \E sc \in { Scenario("return", text, FALSE, 0, args, fvars) } :
        LET frame == StackBase + args
            lcl == frame + 5
            sp == lcl + fvars + 1
        IN  \E lcl0 \in PointerValues, arg0 \in PointerValues, that0 \in {4000, 4001},
               result \in {0, 5, W - 1} :
                /\ rom = code
                /\ scn = sc @@ [lcl0 |-> lcl0, arg0 |-> arg0, this0 |-> 3000,
                                that0 |-> that0, ret0 |-> sc.retLabel,
                                result |-> result, base |-> StackBase]
                /\ pc = Len(code) - 2
                /\ prevpc = -1
                /\ regA = 0
                /\ regD = 0
                /\ ram = [a \in 0 .. RamSize - 1 |->
                            CASE a = 0 -> sp
                              [] a = 1 -> lcl
                              [] a = 2 -> StackBase
                              [] a = 3 -> 3500
                              [] a = 4 -> 4500
                              [] a = frame -> sc.retLabel
                              [] a = frame + 1 -> lcl0
                              [] a = frame + 2 -> arg0
                              [] a = frame + 3 -> 3000
                              [] a = frame + 4 -> that0
                              [] a = sp - 1 -> result
                              [] a >= StackBase /\ a < frame -> 40 + (a - StackBase)
                              [] OTHER -> 0]

\* the variables of the other specifications, at rest
VmIdle ==
    /\ functions = << >>
    /\ parsed = << >>
    /\ vphase = "idle"
    /\ mO = << >>
    /\ mP = << >>

TrIdle ==
    /\ init_vm = TRUE
    /\ pending = {}
    /\ translator = << >>
    /\ out = << >>

ParseIdle ==
    /\ fp = << >>
    /\ returned = << >>
    /\ pstate = "idle"

ReachIdle ==
    /\ seen = {}
    /\ frontier = << >>
    /\ expanded = << >>

AuxIdle == ParseIdle /\ ReachIdle

InitAsm == (InitBoot \/ InitReturn) /\ VmIdle /\ TrIdle /\ AuxIdle

NextAsm == CpuStep

SpecAsm == InitAsm /\ [][NextAsm]_vars

---------------------------------------------------------------------------
(* The optimizer: pattern matching on commands *)

\* ' '.join([command] + [str(arg) ...]) starts with `prefix`, for an opcode
\* prefix: the opcodes of the closed set that begin with it
OpcodesWithPrefix(prefix) ==
    CASE prefix = "lt" -> {"lt", "lte"}
      [] prefix = "gt" -> {"gt", "gte"}
      [] prefix = "eq" -> {"eq"}
      [] prefix = "not" -> {"not"}
      [] prefix = "neg" -> {"neg"}
      [] prefix = "add" -> {"add"}
      [] prefix = "return" -> {"return"}
      [] prefix = "function" -> {"function", "function-ext"}

\* re.match(pattern, command.symbolic()): the pattern is anchored at the start
\* only, so a pattern without a trailing ' .*' matches every opcode it is a
\* prefix of; 'op .*' needs the opcode followed by a space
re_match(pattern, command) ==
    LET op == command[1] IN
    CASE pattern = "push constant .*" ->
            op = "push" /\ command[2] = "constant"
      [] pattern = "push constant 0" ->
            op = "push" /\ command[2] = "constant" /\ command[3] = 0
      [] pattern = "push static .*" ->
            op = "push" /\ command[2] = "static"
      [] pattern = "push argument 0" ->
            op = "push" /\ command[2] = "argument" /\ command[3] = 0
      [] pattern = "pop pointer 0" ->
            op = "pop" /\ command[2] = "pointer" /\ command[3] = 0
      [] pattern = "push this .*" ->
            op = "push" /\ command[2] = "this"
      [] pattern = "push .*" -> op = "push"
      [] pattern = "pop .*" -> op = "pop"
      [] pattern = "if-goto .*" -> op = "if-goto"
      [] pattern = "goto .*" -> op = "goto"
      [] pattern = "label .*" -> op = "label"
      [] pattern = "inline-call .*" -> op = "inline-call"
      [] pattern = "function.*" -> op \in OpcodesWithPrefix("function")
      [] pattern = "(eq|lt|gt|lte|gte)" ->
            op \in OpcodesWithPrefix("eq") \cup OpcodesWithPrefix("lt")
                    \cup OpcodesWithPrefix("gt")
      [] OTHER -> op \in OpcodesWithPrefix(pattern)

\* the eleven rewrites of Optimizer.optimize, in order: the pattern list of
\* each
RuleExpr(rule) ==
    CASE rule = 1 -> << "push constant .*", "not" >>
      [] rule = 2 -> << "push constant .*", "neg" >>
      [] rule = 3 -> << "push constant 0", "add" >>
      [] rule = 4 -> << "push constant 0", "not" >>
      [] rule = 5 -> << "lt", "not" >>
      [] rule = 6 -> << "gt", "not" >>
      [] rule = 7 -> << "push .*", "(eq|lt|gt|lte|gte)", "if-goto .*" >>
      [] rule = 8 -> << "push .*", "pop .*" >>
      [] rule = 9 -> << "push .*", "inline-call .*", "pop .*" >>
      [] rule = 10 -> << "pop .*", "push .*" >>
      [] rule = 11 -> << "if-goto .*", "goto .*", "label .*" >>

\* the exclude lambdas with rule 10's returning True on identical arguments
RuleExclude_identical(rule, w) ==
    CASE rule = 10 -> w[1][2] = w[2][2] /\ w[1][3] = w[2][3]
      [] rule = 11 -> w[1][2] # w[3][2]
      [] OTHER -> FALSE

\* the exclude argument of a rewrite (rules 10 and 11 give one): TRUE where
\* the lambda returns True
RuleExclude(rule, w) ==
    CASE rule = 10 -> w[1][2] # w[2][2] \/ w[1][3] # w[2][3]
      [] rule = 11 -> w[1][2] # w[3][2]
      [] OTHER -> FALSE

\* the replacement lambda of a rewrite
RuleReplace(rule, w) ==
    CASE rule = 1 -> << << "push", "constant~", w[1][3] >> >>
      [] rule = 2 -> << << "push", "constant-", w[1][3] >> >>
      [] rule = 3 -> << >>
      [] rule = 4 -> << << "push", "constant~", 0 >> >>
      [] rule = 5 -> << << "gte" >> >>
      [] rule = 6 -> << << "lte" >> >>
      [] rule = 7 -> << << "if-" \o w[2][1] \o "-goto", w[1][2], w[1][3], w[3][2] >> >>
      [] rule = 8 -> << << "ldd", w[1][2], w[1][3] >>, << "sdd", w[2][2], w[2][3] >> >>
      [] rule = 9 -> << << "ldd", w[1][2], w[1][3] >>, w[2], << "sdd", w[3][2], w[3][3] >> >>
      [] rule = 10 -> << << "tee", w[1][2], w[1][3] >> >>
      [] rule = 11 -> << << "if-goto-not", w[2][2] >> >>

\* match_code(expr, commands, exclude)
match_code(expr, commands, hasExclude, rule) ==
    IF Len(expr) # Len(commands) THEN FALSE
    ELSE IF \A k \in 1 .. Len(expr) : re_match(expr[k], commands[k])
    THEN (~hasExclude) \/ ~RuleExclude(rule, commands)
    ELSE FALSE

\* the match handed to window_replace by rewrite(expr, commands, replace, exclude)
RuleMatch(rule, w) == match_code(RuleExpr(rule), w, rule \in {10, 11}, rule)

\* tuple(islice(it, 0, n, 1)): up to n items from position `it` on
advance(seq, it, n) ==
    SubSeq(seq, it + 1, IF it + n <= Len(seq) THEN it + n ELSE Len(seq))

\* the while loop of window_replace: `it` items of seq are consumed, `result`
\* is the window
RECURSIVE window_loop(_, _, _, _, _)
\* a window_replace without its final `for e in result: yield e`
window_loop_no_tail(seq, rule, n, it, result) ==
    IF Len(result) # n THEN << >>
    ELSE IF RuleMatch(rule, result)
    THEN RuleReplace(rule, result)
         \o window_loop(seq, rule, n, it + Len(advance(seq, it, n)), advance(seq, it, n))
    ELSE << result[1] >>
         \o (IF it < Len(seq)
             THEN window_loop(seq, rule, n, it + 1, Tail(result) \o << seq[it + 1] >>)
             ELSE window_loop(seq, rule, n, it, Tail(result)))

window_loop(seq, rule, n, it, result) ==
    IF Len(result) # n THEN result
    ELSE IF RuleMatch(rule, result)
    THEN RuleReplace(rule, result)
         \o window_loop(seq, rule, n, it + Len(advance(seq, it, n)), advance(seq, it, n))
    ELSE << result[1] >>
         \o (IF it < Len(seq)
             THEN window_loop(seq, rule, n, it + 1, Tail(result) \o << seq[it + 1] >>)
             ELSE window_loop(seq, rule, n, it, Tail(result)))

\* window_replace(seq, match, sub, n)
window_replace(seq, rule, n) ==
    window_loop(seq, rule, n, Len(advance(seq, 0, n)), advance(seq, 0, n))

\* rewrite(expr, commands, replace, exclude)
rewrite(rule, commands) == window_replace(commands, rule, Len(RuleExpr(rule)))

\* the rewrites 1 .. rule applied in order, each to the output of the previous
RECURSIVE rewrite_upto(_, _)
rewrite_upto(rule, commands) ==
    IF rule = 0 THEN commands ELSE rewrite(rule, rewrite_upto(rule - 1, commands))

\* Optimizer.optimize: the new command list of the function
optimize(commands) == rewrite_upto(11, commands)

is_constant_accessor(commands) ==
    match_code(<< "function.*", "push constant .*", "return" >>, commands, FALSE, 0)

is_static_accessor(commands) ==
    match_code(<< "function.*", "push static .*", "return" >>, commands, FALSE, 0)

is_member_accessor(commands) ==
    match_code(<< "function.*", "push argument 0", "pop pointer 0", "push this .*",
                  "return" >>, commands, FALSE, 0)

\* Optimizer.try_inline: << >> stands for None (no accessor body is empty)
try_inline(commands) ==
    IF is_constant_accessor(commands) THEN << commands[2] >>
    ELSE IF is_static_accessor(commands) THEN << commands[2] >>
    ELSE IF is_member_accessor(commands)
    THEN << << "pop", "pointer", 1 >>, << "push", "that", commands[4][3] >> >>
    ELSE << >>

\* Optimizer.inline, the loop body: what one command of `function` becomes
\* ([commands, dependencies] to append)
inline_command(function, table, command) ==
    IF command[1] \in {"call", "call-ext"}
    THEN LET inline_function == table[command[2]]
             inline_commands == try_inline(inline_function.commands)
         IN  IF inline_commands # << >>
             THEN [commands |->
                        << << "inline-call", inline_function.filename,
                              inline_function.function_name >> >>
                        \o inline_commands
                        \o << << "inline-return", function.filename,
                                 function.function_name >> >>,
                   dependencies |-> << >>]
             ELSE [commands |-> << command >>, dependencies |-> << command[2] >>]
    ELSE [commands |-> << command >>, dependencies |-> << >>]

RECURSIVE inline_from(_, _, _)
inline_from(function, table, i) ==
    IF i > Len(function.commands)
    THEN [commands |-> << >>, dependencies |-> << >>]
    ELSE LET one == inline_command(function, table, function.commands[i])
             rest == inline_from(function, table, i + 1)
         IN  [commands |-> one.commands \o rest.commands,
              dependencies |-> one.dependencies \o rest.dependencies]

\* Optimizer.inline: the function with its commands and dependencies replaced
inline(function, table) ==
    LET r == inline_from(function, table, 1)
    IN  [function EXCEPT !.commands = r.commands, !.dependencies = r.dependencies]

---------------------------------------------------------------------------
(* A reference VM: what the lowering of each command does to the stack, the *)
(* segments and the flow of control.  A machine is a record:                *)
(*   pos     index of the next command of the list                          *)
(*   stack   the working stack, top last                                    *)
(*   d       the D register (ldd leaves a value in it for sdd)              *)
(*   temp    the temp segment; static: the static cells by assembler symbol *)
(*   ptr     << THIS, THAT >>; heap: the memory this/that point into        *)
(*   args    the argument segment                                           *)
(*   file, fname   the naming context (filename, function_name)             *)
(*   status  "run", "done" or "fault"; exit: how the run ended              *)

TempCells == 0 .. 1
HeapCells == 0 .. 3

Bool(b) == IF b THEN W - 1 ELSE 0

StaticSym(file, i) == file \o "." \o ToString(i)

\* the segment cell exists in the machine
Addressable(m, segment, i) ==
    CASE segment \in {"constant", "constant~", "constant-"} -> TRUE
      [] segment = "temp" -> i \in TempCells
      [] segment = "static" -> StaticSym(m.file, i) \in DOMAIN m.static
      [] segment = "pointer" -> i \in {0, 1}
      [] segment = "this" -> m.ptr[1] + i \in HeapCells
      [] segment = "that" -> m.ptr[2] + i \in HeapCells
      [] segment = "argument" -> i + 1 \in 1 .. Len(m.args)
      [] OTHER -> FALSE

\* the value _ldd leaves in D
Load(m, segment, i) ==
    CASE segment = "constant" -> i
      [] segment = "constant~" -> W - 1 - i
      [] segment = "constant-" -> (W - i) % W
      [] segment = "temp" -> m.temp[i]
      [] segment = "static" -> m.static[StaticSym(m.file, i)]
      [] segment = "pointer" -> m.ptr[i + 1]
      [] segment = "this" -> m.heap[m.ptr[1] + i]
      [] segment = "that" -> m.heap[m.ptr[2] + i]
      [] segment = "argument" -> m.args[i + 1]

\* the machine after _sdd has stored v
Store(m, segment, i, v) ==
    CASE segment = "temp" -> [m EXCEPT !.temp[i] = v]
      [] segment = "static" -> [m EXCEPT !.static[StaticSym(m.file, i)] = v]
      [] segment = "pointer" -> [m EXCEPT !.ptr[i + 1] = v]
      [] segment = "this" -> [m EXCEPT !.heap[m.ptr[1] + i] = v]
      [] segment = "that" -> [m EXCEPT !.heap[m.ptr[2] + i] = v]
      [] segment = "argument" -> [m EXCEPT !.args[i + 1] = v]

Storable(segment) == segment \notin {"constant", "constant~", "constant-"}

\* D = x - y, then the jump condition of the comparison on D
Compare(op, x, y) ==
    LET diff == Signed((x + W - y) % W) IN
    CASE op = "eq" -> diff = 0
      [] op = "lt" -> diff < 0
      [] op = "gt" -> diff > 0
      [] op = "lte" -> diff <= 0
      [] op = "gte" -> diff >= 0

Top(stack) == stack[Len(stack)]
Pop(stack) == SubSeq(stack, 1, Len(stack) - 1)
Pop2(stack) == SubSeq(stack, 1, Len(stack) - 2)

Fault(m) == [m EXCEPT !.status = "fault"]
Advance(m) == [m EXCEPT !.pos = @ + 1]

\* a jump to FuncName$label: to the label command of the list when it declares
\* one, else out of the list
Jump(list, m, label) ==
    IF \E p \in 1 .. Len(list) : list[p] = << "label", label >>
    THEN [m EXCEPT !.pos = CHOOSE p \in 1 .. Len(list) : list[p] = << "label", label >>]
    ELSE [m EXCEPT !.status = "done", !.exit = m.fname \o "$" \o label]

FusedCompares == {"if-eq-goto", "if-lt-goto", "if-gt-goto", "if-lte-goto", "if-gte-goto"}

FusedOp(op) ==
    CASE op = "if-eq-goto" -> "eq"
      [] op = "if-lt-goto" -> "lt"
      [] op = "if-gt-goto" -> "gt"
      [] op = "if-lte-goto" -> "lte"
      [] op = "if-gte-goto" -> "gte"

\* one command that is not a call
VmCommand(list, m, c) ==
    LET op == c[1]
        n == Len(m.stack)
    IN
    CASE op = "push" ->
            IF ~Addressable(m, c[2], c[3]) \/ n >= MaxStack THEN Fault(m)
            ELSE Advance([m EXCEPT !.stack = Append(@, Load(m, c[2], c[3])),
                                   !.d = IF c[2] = "constant" /\ c[3] \in {0, 1}
                                         THEN @ ELSE Load(m, c[2], c[3])])
      [] op = "pop" ->
            IF n < 1 \/ ~Storable(c[2]) \/ ~Addressable(m, c[2], c[3]) THEN Fault(m)
            ELSE Advance(Store([m EXCEPT !.stack = Pop(@), !.d = Top(m.stack)],
                               c[2], c[3], Top(m.stack)))
      [] op = "tee" ->
            IF n < 1 \/ ~Storable(c[2]) \/ ~Addressable(m, c[2], c[3]) THEN Fault(m)
            ELSE Advance(Store([m EXCEPT !.d = Top(m.stack)], c[2], c[3], Top(m.stack)))
      [] op = "ldd" ->
            IF ~Addressable(m, c[2], c[3]) THEN Fault(m)
            ELSE Advance([m EXCEPT !.d = Load(m, c[2], c[3])])
      [] op = "sdd" ->
            IF ~Storable(c[2]) \/ ~Addressable(m, c[2], c[3]) THEN Fault(m)
            ELSE Advance(Store(m, c[2], c[3], m.d))
      [] op = "add" ->
            IF n < 2 THEN Fault(m)
            ELSE Advance([m EXCEPT !.stack = Append(Pop2(@), (m.stack[n - 1] + m.stack[n]) % W),
                                   !.d = m.stack[n]])
      [] op = "neg" ->
            IF n < 1 THEN Fault(m)
            ELSE Advance([m EXCEPT !.stack = Append(Pop(@), (W - m.stack[n]) % W)])
      [] op = "not" ->
            IF n < 1 THEN Fault(m)
            ELSE Advance([m EXCEPT !.stack = Append(Pop(@), W - 1 - m.stack[n])])
      [] op \in {"eq", "lt", "gt", "lte", "gte"} ->
            IF n < 2 THEN Fault(m)
            ELSE Advance([m EXCEPT
                    !.stack = Append(Pop2(@), Bool(Compare(op, m.stack[n - 1], m.stack[n]))),
                    !.d = Bool(Compare(op, m.stack[n - 1], m.stack[n]))])
      [] op = "label" -> Advance(m)
      [] op = "goto" -> Jump(list, m, c[2])
      [] op = "if-goto" ->
            IF n < 1 THEN Fault(m)
            ELSE LET m1 == [m EXCEPT !.stack = Pop(@), !.d = Top(m.stack)]
                 IN  IF Top(m.stack) # 0 THEN Jump(list, m1, c[2]) ELSE Advance(m1)
      [] op = "if-goto-not" ->
            IF n < 1 THEN Fault(m)
            ELSE LET m1 == [m EXCEPT !.stack = Pop(@), !.d = Top(m.stack)]
                 IN  IF Top(m.stack) = 0 THEN Jump(list, m1, c[2]) ELSE Advance(m1)
      [] op \in FusedCompares ->
            IF n < 1 \/ ~Addressable(m, c[2], c[3]) THEN Fault(m)
            ELSE LET x == Load(m, c[2], c[3])
                     m1 == [m EXCEPT !.stack = Pop(@), !.d = (Top(m.stack) + W - x) % W]
                 IN  IF Compare(FusedOp(op), Top(m.stack), x)
                     THEN Jump(list, m1, c[4]) ELSE Advance(m1)
      [] op \in {"inline-call", "inline-return"} ->
            Advance([m EXCEPT !.file = c[2], !.fname = c[3]])
      [] op \in {"function", "function-ext"} ->
            Advance([m EXCEPT !.fname = c[2]])
      [] op = "return" ->
            IF n < 1 THEN Fault(m)
            ELSE [m EXCEPT !.status = "done", !.exit = "return"]

\* the body of a callee run to its return
RECURSIVE RunBody(_, _, _)
RunBody(list, m, fuel) ==
    IF m.status # "run" THEN m
    ELSE IF fuel = 0 \/ m.pos > Len(list) \/ list[m.pos][1] \in {"call", "call-ext"}
    THEN Fault(m)
    ELSE RunBody(list, VmCommand(list, m, list[m.pos]), fuel - 1)

\* call F A followed by F's return (save_stack, the body, pop_stack): F runs
\* on an empty working stack with the top A cells of the caller as its
\* argument segment and the caller's THIS and THAT; the return replaces the A
\* arguments by the result and restores the caller's THIS and THAT
VmCall(table, m, callee, nargs) ==
    IF Len(m.stack) < nargs \/ callee \notin DOMAIN table THEN Fault(m)
    ELSE LET f == table[callee]
             n == Len(m.stack)
             entry == [m EXCEPT !.pos = 1, !.stack = << >>,
                                !.args = SubSeq(m.stack, n - nargs + 1, n),
                                !.file = f.filename, !.fname = f.function_name]
             r == RunBody(f.commands, entry, Len(f.commands) + 1)
         IN  IF r.status # "done" \/ r.exit # "return" THEN Fault(m)
             ELSE Advance([m EXCEPT
                     !.stack = Append(SubSeq(m.stack, 1, n - nargs), Top(r.stack)),
                     !.temp = r.temp, !.static = r.static, !.heap = r.heap, !.d = r.d])

\* one step of the machine on `list`; `table` resolves call targets
VmStep(table, list, m) ==
    IF m.pos > Len(list) THEN [m EXCEPT !.status = "done", !.exit = "end"]
    ELSE LET c == list[m.pos] IN
         IF c[1] = "call" THEN VmCall(table, m, c[2], c[3])
         ELSE VmCommand(list, m, c)

Terminal(m) == m.status # "run"

\* the pass has run; the program as parsed runs first, then the rewritten one
StepO ==
    /\ vphase = "rewritten"
    /\ ~Terminal(mO)
    /\ mO' = VmStep(parsed, parsed["Main.main"].commands, mO)
    /\ UNCHANGED <<functions, parsed, vphase, mP>>
    /\ UNCHANGED cpuvars
    /\ UNCHANGED auxvars
    /\ UNCHANGED trvars

StepP ==
    /\ vphase = "rewritten"
    /\ Terminal(mO)
    /\ ~Terminal(mP)
    /\ mP' = VmStep(functions, functions["Main.main"].commands, mP)
    /\ UNCHANGED <<functions, parsed, vphase, mO>>
    /\ UNCHANGED cpuvars
    /\ UNCHANGED auxvars
    /\ UNCHANGED trvars

CpuIdle ==
    /\ rom = << >>
    /\ pc = 0
    /\ prevpc = -1
    /\ regA = 0
    /\ regD = 0
    /\ ram = << >>
    /\ scn = << >>

---------------------------------------------------------------------------
(* SpecOpt: the peephole pass on a command list, and both lists run *)

\* the commands a list is drawn from
Alphabet ==
    { << "push", "constant", 0 >>, << "push", "constant", 2 >>,
      << "push", "temp", 0 >>, << "pop", "temp", 0 >>, << "pop", "temp", 1 >>,
      << "not" >>, << "neg" >>, << "add" >>, << "lt" >>, << "gt" >>, << "eq" >>,
      << "if-goto", "A" >>, << "goto", "B" >>, << "label", "A" >>,
      << "inline-call", "Main", "Main.main" >> }

RECURSIVE ListsOfLen(_)
ListsOfLen(n) ==
    IF n = 0 THEN { << >> }
    ELSE { Append(l, c) : l \in ListsOfLen(n - 1), c \in Alphabet }

\* longer lists, and lists with other branch targets, where rules meet
LongerLists ==
    { << << "push", "constant", 2 >>, << "push", "constant", 0 >>, << "add" >>, << "not" >> >>,
      << << "push", "constant", 2 >>, << "if-goto", "A" >>, << "goto", "A" >>,
         << "label", "A" >> >>,
      << << "push", "constant", 0 >>, << "if-goto", "A" >>, << "goto", "B" >>,
         << "label", "A" >>, << "goto", "A" >>, << "label", "B" >> >>,
      << << "push", "constant", 2 >>, << "if-goto", "A" >>, << "goto", "B" >>,
         << "label", "A" >>, << "push", "constant", 0 >>, << "label", "B" >> >> }

CommandLists == UNION { ListsOfLen(n) : n \in 1 .. MaxLen } \cup LongerLists

\* the stacks a run starts from, top last
StartStacks == { << 5, 2, 2 >>, << 0, 1, 2 >>, << 2, 0, W - 1 >> }

StartMachine(stack) ==
    [pos |-> 1, stack |-> stack, d |-> 0,
     temp |-> [i \in TempCells |-> 7 + i],
     static |-> [s \in {"Main.0", "Acc.0", "Acc.1"} |-> 0],
     ptr |-> << 0, 0 >>,
     heap |-> [a \in HeapCells |-> 0],
     args |-> << >>,
     file |-> "Main", fname |-> "Main.main",
     status |-> "run", exit |-> ""]

\* Preassembler.add: a Function holding the commands from its declaration on
MainFunctionOf(list) ==
    [filename |-> "Main", function_name |-> "Main.main",
     commands |-> << << "function", "Main.main", 0 >> >> \o list,
     dependencies |-> << >>]

InitOpt ==
    /\ \E list \in CommandLists :
          /\ functions = [n \in {"Main.main"} |-> MainFunctionOf(list)]
          /\ parsed = [n \in {"Main.main"} |-> MainFunctionOf(list)]
    /\ vphase = "parsed"
    /\ \E stack \in StartStacks :
          /\ mO = StartMachine(stack)
          /\ mP = StartMachine(stack)
    /\ CpuIdle
    /\ AuxIdle
    /\ TrIdle

\* optimizer.optimize(function)
OptimizeStep ==
    /\ vphase = "parsed"
    /\ functions' = [functions EXCEPT !["Main.main"].commands = optimize(@)]
    /\ vphase' = "rewritten"
    /\ UNCHANGED <<parsed, mO, mP>>
    /\ UNCHANGED cpuvars
    /\ UNCHANGED auxvars
    /\ UNCHANGED trvars

NextOpt == OptimizeStep \/ StepO \/ StepP

SpecOpt == InitOpt /\ [][NextOpt]_vars

---------------------------------------------------------------------------
(* SpecInline: the inlining pass on a caller of Acc.get, and both run *)

\* the bodies Acc.get may have: the three accessor shapes, and a function
\* that is no accessor
AccessorBodies ==
    { << << "function", "Acc.get", 0 >>, << "push", "constant", 9 >>, << "return" >> >>,
      << << "function", "Acc.get", 0 >>, << "push", "static", 0 >>, << "return" >> >>,
      << << "function", "Acc.get", 0 >>, << "push", "argument", 0 >>,
         << "pop", "pointer", 0 >>, << "push", "this", 1 >>, << "return" >> >>,
      << << "function", "Acc.get", 0 >>, << "push", "constant", 9 >>, << "neg" >>,
         << "return" >> >> }

\* Function.append: a call target joins the dependencies (a set: once)
RECURSIVE DependenciesOf(_, _)
DependenciesOf(commands, i) ==
    IF i > Len(commands) THEN << >>
    ELSE LET rest == DependenciesOf(commands, i + 1)
             c == commands[i]
         IN  IF c[1] \in {"call", "call-ext"}
                 /\ \A k \in 1 .. Len(rest) : rest[k] # c[2]
             THEN << c[2] >> \o rest
             ELSE rest

\* Preassembler.add over the commands of one function
Function(filename, function_name, commands) ==
    [filename |-> filename, function_name |-> function_name,
     commands |-> commands, dependencies |-> DependenciesOf(commands, 1)]

\* the argument values a caller pushes: object addresses
RECURSIVE ArgLists(_)
ArgLists(n) ==
    IF n = 0 THEN { << >> } ELSE { Append(l, v) : l \in ArgLists(n - 1), v \in {1, 2} }

InitInline ==
    /\ \E body \in AccessorBodies, nargs \in 0 .. MaxArgs :
          \E table \in { [n \in {"Main.main", "Acc.get"} |->
                            IF n = "Acc.get" THEN Function("Acc", "Acc.get", body)
                            ELSE Function("Main", "Main.main",
                                          << << "function", "Main.main", 0 >>,
                                             << "call", "Acc.get", nargs >> >>)] } :
          \E arglist \in ArgLists(nargs), that0 \in {2, 3} :
          \E m \in { [StartMachine(<< 11 >> \o arglist) EXCEPT
                        !.ptr = << 0, that0 >>,
                        !.heap = [a \in HeapCells |-> 100 + a],
                        !.static = [s \in {"Main.0", "Acc.0", "Acc.1"} |->
                                        IF s = "Acc.0" THEN 55 ELSE 66]] } :
              /\ functions = table
              /\ parsed = table
              /\ mO = m
              /\ mP = m
    /\ vphase = "parsed"
    /\ CpuIdle
    /\ AuxIdle
    /\ TrIdle

\* optimizer.inline(function, preassembler.functions) for Main.main
InlineStep ==
    /\ vphase = "parsed"
    /\ functions' = [functions EXCEPT !["Main.main"] = inline(@, functions)]
    /\ vphase' = "rewritten"
    /\ UNCHANGED <<parsed, mO, mP>>
    /\ UNCHANGED cpuvars
    /\ UNCHANGED auxvars
    /\ UNCHANGED trvars

NextInline == InlineStep \/ StepO \/ StepP

SpecInline == InitInline /\ [][NextInline]_vars

---------------------------------------------------------------------------
(* SpecTranslate: translate(program, init_vm, vm_files, out) on a program of *)
(* four functions                                                            *)

\* Preassembler.reachable_functions as the all-names set (no traversal)
reachable_functions_all(table, start_function) == DOMAIN table

\* the while loop of reachable_functions: frontier.pop() takes the last name;
\* self.functions[function_name] raises KeyError for a name not in the table.
\* sn, fr: the locals `seen` and `frontier`; ex lists the names whose
\* dependencies were pushed, in order.
RECURSIVE reachable_loop(_, _, _, _)
reachable_loop(table, sn, fr, ex) ==
    IF Len(fr) = 0 THEN [seen |-> sn, raised |-> FALSE, expanded |-> ex]
    ELSE LET function_name == fr[Len(fr)]
             rest == SubSeq(fr, 1, Len(fr) - 1)
         IN  IF function_name \in sn THEN reachable_loop(table, sn, rest, ex)
             ELSE IF function_name \notin DOMAIN table
             THEN [seen |-> sn \cup {function_name}, raised |-> TRUE,
                   expanded |-> ex]
             ELSE reachable_loop(table, sn \cup {function_name},
                                 rest \o table[function_name].dependencies,
                                 Append(ex, function_name))

reachable_functions(table, start_function) ==
    reachable_loop(table, {}, << start_function >>, << >>).seen

\* a KeyError raised wherever some function names a callee not in the table
raises_anywhere(table, start_function) ==
    \E f \in DOMAIN table : \E k \in 1 .. Len(table[f].dependencies) :
        table[f].dependencies[k] \notin DOMAIN table

\* reachable_functions raises KeyError
reachable_functions_raises(table, start_function) ==
    reachable_loop(table, {}, << start_function >>, << >>).raised

\* the functions of the program; every program defines Sys.init and every
\* callee (translate raises KeyError otherwise)
FunctionNames == {"Sys.init", "Main.f", "Main.g", "Acc.get"}

\* what a body holds besides its calls
Shapes == {"plain", "label", "compare", "compare-after"}

Comparison ==
    << << "push", "constant", 2 >>, << "push", "constant", 3 >>, << "lt" >>,
       << "pop", "temp", 0 >> >>

RECURSIVE CallCommands(_)
CallCommands(callees) ==
    IF Len(callees) = 0 THEN << >>
    ELSE << << "call", Head(callees), 0 >> >> \o CallCommands(Tail(callees))

\* function name 0; [label ret.0 | a comparison]; the calls; [a comparison];
\* push constant 7; return.   Branch labels are unique within the function.
Body(name, shape, callees) ==
    << << "function", name, 0 >> >>
    \o (IF shape = "label" THEN << << "label", "ret.0" >> >>
        ELSE IF shape = "compare" THEN Comparison ELSE << >>)
    \o CallCommands(callees)
    \o (IF shape = "compare-after" THEN Comparison ELSE << >>)
    \o << << "push", "constant", 7 >>, << "return" >> >>

SysInitCallees ==
    { << "Main.f" >>, << "Main.f", "Main.g" >>, << "Acc.get" >>, << "Main.g", "Acc.get" >> }

MainFCallees == { << >>, << "Main.g" >>, << "Acc.get" >>, << "Main.f" >> }

MainGCallees == { << >>, << "Main.f" >>, << "Acc.get", "Acc.get" >> }

\* Acc.get: a constant accessor or a static accessor
AccGetBodies ==
    { << << "function", "Acc.get", 0 >>, << "push", "constant", 9 >>, << "return" >> >>,
      << << "function", "Acc.get", 0 >>, << "push", "static", 0 >>, << "return" >> >> }

\* the file a function is parsed from: in directory mode the file its name
\* starts with, in single-file mode the one file
FileOf(name, directory) ==
    IF ~directory THEN "Main"
    ELSE IF name = "Sys.init" THEN "Sys"
    ELSE IF name = "Acc.get" THEN "Acc"
    ELSE "Main"

\* the pre-parse loop of translate: preassembler.add on every command
Preparse(directory, sysShape, sysCallees, fShape, fCallees, gCallees, accBody) ==
    [n \in FunctionNames |->
        Function(FileOf(n, directory), n,
                 CASE n = "Sys.init" -> Body(n, sysShape, sysCallees)
                   [] n = "Main.f" -> Body(n, fShape, fCallees)
                   [] n = "Main.g" -> Body(n, "plain", gCallees)
                   [] OTHER -> accBody)]

InitTranslate ==
    /\ \E directory \in BOOLEAN, sysShape \in Shapes, sysCallees \in SysInitCallees,
          fShape \in Shapes, fCallees \in MainFCallees, gCallees \in MainGCallees,
          accBody \in AccGetBodies :
          \E table \in { Preparse(directory, sysShape, sysCallees, fShape, fCallees,
                                  gCallees, accBody) } :
              /\ init_vm = directory
              /\ parsed = table
              /\ functions = table
              /\ pending = reachable_functions(table, "Sys.init")
    /\ vphase = "inline"
    /\ translator = ASMTranslator_init
    /\ out = << >>
    /\ mO = << >>
    /\ mP = << >>
    /\ CpuIdle
    /\ AuxIdle

\* one turn of `for function_name in reachable_functions('Sys.init'):
\* optimizer.inline(function, preassembler.functions)`; a set is iterated in
\* an order that differs from run to run. After the last turn the next loop's
\* set is computed.
InlineNext ==
    /\ vphase = "inline"
    /\ \E function_name \in pending :
          LET table == [functions EXCEPT ![function_name] = inline(@, functions)]
              rest == pending \ {function_name}
          IN  /\ functions' = table
              /\ IF rest = {}
                 THEN /\ vphase' = "optimize"
                      /\ pending' = reachable_functions(table, "Sys.init")
                 ELSE /\ vphase' = vphase
                      /\ pending' = rest
    /\ UNCHANGED <<parsed, mO, mP, init_vm, translator, out>>
    /\ UNCHANGED cpuvars
    /\ UNCHANGED auxvars

\* one turn of the loop calling optimizer.optimize(function)
OptimizeNext ==
    /\ vphase = "optimize"
    /\ \E function_name \in pending :
          LET rest == pending \ {function_name}
          IN  /\ functions' = [functions EXCEPT ![function_name].commands = optimize(@)]
              /\ pending' = rest
              /\ vphase' = IF rest = {} THEN "preamble" ELSE vphase
    /\ UNCHANGED <<parsed, mO, mP, init_vm, translator, out>>
    /\ UNCHANGED cpuvars
    /\ UNCHANGED auxvars

\* emit preamble: the prologue and runtime if init_vm; then the emission
\* loop's set is computed
Preamble ==
    /\ vphase = "preamble"
    /\ IF init_vm
       THEN LET r == _init_vm(translator)
            IN  /\ out' = out \o r.asm
                /\ translator' = r.tr
       ELSE UNCHANGED <<out, translator>>
    /\ pending' = reachable_functions(functions, "Sys.init")
    /\ vphase' = "emit"
    /\ UNCHANGED <<functions, parsed, mO, mP, init_vm>>
    /\ UNCHANGED cpuvars
    /\ UNCHANGED auxvars

\* one turn of the emission loop: function.translate(translator, out, ...)
EmitNext ==
    /\ vphase = "emit"
    /\ \E function_name \in pending :
          LET r == Function_translate(translator, functions[function_name])
              rest == pending \ {function_name}
          IN  /\ out' = out \o r.asm
              /\ translator' = r.tr
              /\ pending' = rest
              /\ vphase' = IF rest = {} THEN "done" ELSE vphase
    /\ UNCHANGED <<functions, parsed, mO, mP, init_vm>>
    /\ UNCHANGED cpuvars
    /\ UNCHANGED auxvars

NextTranslate == InlineNext \/ OptimizeNext \/ Preamble \/ EmitNext

SpecTranslate == InitTranslate /\ [][NextTranslate]_vars

---------------------------------------------------------------------------
(* SpecResolve: translate on programs whose calls may name a function that  *)
(* no file defines                                                          *)

ResolveNames == {"Sys.init", "Main.f", "Main.g"}

ResolveSysCallees ==
    { << >>, << "Main.f" >>, << "Main.g" >>, << "Lib.missing" >>,
      << "Main.f", "Lib.missing" >> }

ResolveFCallees == { << >>, << "Main.g" >>, << "Lib.missing" >>, << "Main.f" >> }

ResolveGCallees == { << >>, << "Lib.missing" >>, << "Main.f" >> }

\* function name 0; the calls (written `call F 0` or `call-ext F`);
\* push constant 7; return
RECURSIVE ResolveCalls(_, _)
ResolveCalls(callees, opcode) ==
    IF Len(callees) = 0 THEN << >>
    ELSE << IF opcode = "call" THEN << "call", Head(callees), 0 >>
            ELSE << "call-ext", Head(callees) >> >>
         \o ResolveCalls(Tail(callees), opcode)

ResolveBody(name, callees, opcode) ==
    << << "function", name, 0 >> >> \o ResolveCalls(callees, opcode)
    \o << << "push", "constant", 7 >>, << "return" >> >>

\* translate has parsed the files and is about to compute the set of the
\* inline loop
InitResolve ==
    /\ \E directory \in BOOLEAN, opcode \in {"call", "call-ext"},
          sysCallees \in ResolveSysCallees, fCallees \in ResolveFCallees,
          gCallees \in ResolveGCallees :
          \E table \in { [n \in ResolveNames |->
                            Function(FileOf(n, directory), n,
                                     ResolveBody(n, CASE n = "Sys.init" -> sysCallees
                                                      [] n = "Main.f" -> fCallees
                                                      [] OTHER -> gCallees,
                                                 opcode))] } :
              /\ init_vm = directory
              /\ parsed = table
              /\ functions = table
    /\ pending = {}
    /\ vphase = "start"
    /\ translator = ASMTranslator_init
    /\ out = << >>
    /\ mO = << >>
    /\ mP = << >>
    /\ CpuIdle
    /\ AuxIdle

\* preassembler.reachable_functions('Sys.init') for the inline loop: a
\* KeyError ends translate, nothing having been written
ResolveStart ==
    /\ vphase = "start"
    /\ IF reachable_functions_raises(functions, "Sys.init")
       THEN /\ vphase' = "failed"
            /\ pending' = pending
       ELSE /\ vphase' = "inline"
            /\ pending' = reachable_functions(functions, "Sys.init")
    /\ UNCHANGED <<functions, parsed, mO, mP, init_vm, translator, out>>
    /\ UNCHANGED cpuvars
    /\ UNCHANGED auxvars

NextResolve == ResolveStart \/ InlineNext \/ OptimizeNext \/ Preamble \/ EmitNext

SpecResolve == InitResolve /\ [][NextResolve]_vars

---------------------------------------------------------------------------
(* SpecParse: Parser.__next__ on the lines of a file                        *)

\* A line is the sequence of its blank-separated words; the word "//" starts
\* a comment. re.sub('//.*$', '', line), strip, re.sub('\s+', ' ', line) and
\* split(' ') leave the words before the comment.
RECURSIVE components_of(_)
components_of(line) ==
    IF Len(line) = 0 \/ Head(line) = "//" THEN << >>
    ELSE << Head(line) >> \o components_of(Tail(line))

\* int(word) succeeds
IsInt(word) == IsNumeral(word)

\* the while loop of __next__ from the first unread line on: the Command
\* returned, StopIteration at the end of the file, or ValueError from int();
\* `rest` is what is left unread
RECURSIVE parser_next(_)
parser_next(lines) ==
    IF Len(lines) = 0
    THEN [kind |-> "StopIteration", command |-> << >>, rest |-> << >>]
    ELSE LET components == components_of(Head(lines))
             n == Len(components)
             Return(cmd) == [kind |-> "return", command |-> cmd, rest |-> Tail(lines)]
             ValueError == [kind |-> "ValueError", command |-> << >>, rest |-> Tail(lines)]
         IN  IF n = 0 THEN parser_next(Tail(lines))
             ELSE IF n = 1 THEN Return(<< components[1] >>)
             ELSE IF n = 2 THEN Return(<< components[1], components[2] >>)
             ELSE IF n = 3
             THEN IF IsInt(components[3])
                  THEN Return(<< components[1], components[2], NumeralValue(components[3]) >>)
                  ELSE ValueError
             ELSE IF n = 4
             THEN IF IsInt(components[3]) /\ IsInt(components[4])
                  THEN Return(<< components[1], components[2], NumeralValue(components[3]),
                                 NumeralValue(components[4]) >>)
                  ELSE ValueError
             ELSE IF n = 5
             THEN IF IsInt(components[3]) /\ IsInt(components[5])
                  THEN Return(<< components[1], components[2], NumeralValue(components[3]),
                                 components[4], NumeralValue(components[5]) >>)
                  ELSE ValueError
             ELSE parser_next(Tail(lines))

\* the lines a file may hold: empty, comment only, one to six words, a word
\* that is no integer where one is read, a trailing comment
FileLines ==
    { << >>,
      << "//", "note" >>,
      << "add" >>,
      << "call-ext", "Main.f" >>,
      << "push", "constant", "7" >>,
      << "push", "constant", "x" >>,
      << "push", "constant", "7", "//", "note" >>,
      << "function-ext", "Main.f", "1", "2" >>,
      << "poke", "local", "1", "temp", "2" >>,
      << "push", "constant", "7", "8", "9", "10" >> }

RECURSIVE FilesOfLen(_)
FilesOfLen(n) ==
    IF n = 0 THEN { << >> }
    ELSE { << l >> \o f : l \in FileLines, f \in FilesOfLen(n - 1) }

InitParse ==
    /\ fp \in UNION { FilesOfLen(n) : n \in 0 .. MaxLines }
    /\ returned = << >>
    /\ pstate = "open"
    /\ ReachIdle
    /\ VmIdle
    /\ TrIdle
    /\ rom = << >>
    /\ pc = 0
    /\ prevpc = -1
    /\ regA = 0
    /\ regD = 0
    /\ ram = << >>
    /\ scn = << >>

\* one call of Parser.__next__
ParserNext ==
    /\ pstate = "open"
    /\ LET r == parser_next(fp)
       IN  /\ fp' = r.rest
           /\ returned' = IF r.kind = "return" THEN Append(returned, r.command)
                          ELSE returned
           /\ pstate' = CASE r.kind = "return" -> "open"
                          [] r.kind = "StopIteration" -> "eof"
                          [] OTHER -> "error"
    /\ UNCHANGED reachvars
    /\ UNCHANGED cpuvars
    /\ UNCHANGED vmvars
    /\ UNCHANGED trvars

NextParse == ParserNext

SpecParse == InitParse /\ [][NextParse]_vars

---------------------------------------------------------------------------
(* SpecFused: `push X; CMP; if-goto L` and what the peephole pass makes of *)
(* it, each lowered in Main.main, assembled and run on the CPU             *)

FusedCmps == {"eq", "lt", "gt", "lte", "gte"}

\* the operands X: constant 0, constant 1, a larger constant, the two
\* pseudo-constants, and every memory segment (index 0, 1 and larger)
FusedOperands ==
    { << "constant", 0 >>, << "constant", 1 >>, << "constant", 2 >>,
      << "constant~", 2 >>, << "constant-", 1 >>,
      << "temp", 0 >>, << "static", 0 >>, << "pointer", 1 >>,
      << "local", 0 >>, << "argument", 1 >>, << "this", 2 >>, << "that", 2 >> }

\* words on both sides of the sign change and of zero
FusedWords == {0, 1, 2, W \div 2 - 1, W \div 2, W - 3, W - 1}

\* the segment bases of the run, all inside the modelled memory
FusedLcl == StackBase + 6
FusedArg == StackBase + 8
FusedThis == StackBase + 10
FusedThat == StackBase + 12

\* the cell a memory operand names (the assembler gives Main.0 address 16)
FusedCell(operand) ==
    CASE operand[1] = "temp" -> 5 + operand[2]
      [] operand[1] = "static" -> 16
      [] operand[1] = "pointer" -> 3 + operand[2]
      [] operand[1] = "local" -> FusedLcl + operand[2]
      [] operand[1] = "argument" -> FusedArg + operand[2]
      [] operand[1] = "this" -> FusedThis + operand[2]
      [] operand[1] = "that" -> FusedThat + operand[2]

IsConstantOperand(operand) == operand[1] \in {"constant", "constant~", "constant-"}

\* the word `push X` pushes: the constant, its complement or its negation, or
\* the word x held by the cell
FusedValue(operand, x) ==
    CASE operand[1] = "constant" -> operand[2]
      [] operand[1] = "constant~" -> W - 1 - operand[2]
      [] operand[1] = "constant-" -> (W - operand[2]) % W
      [] OTHER -> x

UnfusedCommands(cmp, operand) ==
    << << "push", operand[1], operand[2] >>, << cmp >>, << "if-goto", "L" >> >>

\* the commands lowered in Main.main, then one instruction the branch falls
\* through to, then (Main.main$L)
FusedProgram(commands) ==
    translate_commands([ASMTranslator_init EXCEPT !.filename = "Main",
                                                  !.function_name = "Main.main"],
                       commands, 1).asm
        \o << C("D=0"), Lbl("Main.main$L"), C("D=0") >>

InitFused ==
    \E cmp \in FusedCmps, operand \in FusedOperands, y \in FusedWords,
       x \in FusedWords, fused \in BOOLEAN :
        /\ IsConstantOperand(operand) => x = 0
        /\ \E commands \in { IF fused THEN optimize(UnfusedCommands(cmp, operand))
                             ELSE UnfusedCommands(cmp, operand) } :
           \E text \in { FusedProgram(commands) } :
           \E code \in { Assemble(text) } :
           \E ram0 \in { [a \in 0 .. RamSize - 1 |->
                            CASE a = 0 -> StackBase + 2
                              [] a = 1 -> FusedLcl
                              [] a = 2 -> FusedArg
                              [] a = 3 /\ operand # << "pointer", 0 >> -> FusedThis
                              [] a = 4 /\ operand # << "pointer", 1 >> -> FusedThat
                              [] a = StackBase -> 77
                              [] a = StackBase + 1 -> y
                              [] ~IsConstantOperand(operand) /\ a = FusedCell(operand) -> x
                              [] OTHER -> 0] } :
               /\ rom = code
               /\ scn = [kind |-> IF fused THEN "fused" ELSE "unfused",
                         cmp |-> cmp, operand |-> operand, y |-> y,
                         x |-> FusedValue(operand, x),
                         commands |-> commands,
                         target |-> LabelAddr(text, "Main.main$L"),
                         exits |-> { LabelAddr(text, "Main.main$L") - 2 },
                         ram0 |-> ram0]
               /\ pc = 0
               /\ prevpc = -1
               /\ regA = 0
               /\ regD = 0
               /\ ram = ram0
    /\ VmIdle
    /\ TrIdle
    /\ AuxIdle

NextFused == CpuStep

SpecFused == InitFused /\ [][NextFused]_vars

---------------------------------------------------------------------------
(* SpecContext: Main.main (file Main) calls accessors of file Acc; it is     *)
(* inlined into, rewritten by the peephole pass, and then lowered one        *)
(* command at a time, the emitter carrying its naming context along          *)

\* the callees: a constant, a static and a member accessor of file Acc, and
\* Main.g, which is not an accessor
ContextCallees ==
    [n \in {"Acc.getc", "Acc.gets", "Acc.getm", "Main.g"} |->
        CASE n = "Acc.getc" ->
                Function("Acc", n, << << "function", n, 0 >>, << "push", "constant", 9 >>,
                                      << "return" >> >>)
          [] n = "Acc.gets" ->
                Function("Acc", n, << << "function", n, 0 >>, << "push", "static", 0 >>,
                                      << "return" >> >>)
          [] n = "Acc.getm" ->
                Function("Acc", n, << << "function", n, 0 >>, << "push", "argument", 0 >>,
                                      << "pop", "pointer", 0 >>, << "push", "this", 2 >>,
                                      << "return" >> >>)
          [] n = "Main.g" ->
                Function("Main", n, << << "function", n, 0 >>, << "push", "constant", 7 >>,
                                      << "push", "constant", 8 >>, << "return" >> >>)]

\* the caller's own commands.  Its statics are static 1 and static 2, the
\* callee's is static 0, so that the symbol a static access is lowered to
\* tells whose it was and whose context it was lowered in.
ContextAlphabet ==
    { << "push", "static", 1 >>, << "pop", "static", 2 >>, << "push", "constant", 3 >>,
      << "eq" >>, << "not" >>,
      << "label", "A" >>, << "goto", "A" >>, << "if-goto", "A" >>,
      << "call", "Acc.getc", 0 >>, << "call", "Acc.gets", 0 >>,
      << "call", "Acc.getm", 1 >>, << "call", "Main.g", 0 >> }

RECURSIVE ContextBodies(_)
ContextBodies(n) ==
    IF n = 0 THEN { << >> }
    ELSE { << c >> \o l : c \in ContextAlphabet, l \in ContextBodies(n - 1) }

InitContext ==
    /\ \E n \in 0 .. MaxLen : \E body \in ContextBodies(n) :
          parsed = [m \in {"Main.main"} |->
                        Function("Main", m, << << "function", m, 0 >> >> \o body
                                            \o << << "return" >> >>)]
                   @@ ContextCallees
    /\ functions = parsed
    /\ vphase = "parsed"
    /\ mO = << >>
    /\ mP = << >>
    /\ init_vm = TRUE
    /\ pending = << >>
    /\ translator = << >>
    /\ out = << >>
    /\ CpuIdle
    /\ AuxIdle

\* optimizer.inline(function, preassembler.functions)
ContextInline ==
    /\ vphase = "parsed"
    /\ functions' = [functions EXCEPT !["Main.main"] = inline(@, functions)]
    /\ vphase' = "inlined"
    /\ UNCHANGED <<parsed, mO, mP>>
    /\ UNCHANGED cpuvars
    /\ UNCHANGED auxvars
    /\ UNCHANGED trvars

\* optimizer.optimize(function)
ContextOptimize ==
    /\ vphase = "inlined"
    /\ functions' = [functions EXCEPT !["Main.main"].commands = optimize(@)]
    /\ vphase' = "optimized"
    /\ UNCHANGED <<parsed, mO, mP>>
    /\ UNCHANGED cpuvars
    /\ UNCHANGED auxvars
    /\ UNCHANGED trvars

\* translator = ASMTranslator(), then Function.translate on entry: the
\* context becomes the function's
ContextEnter ==
    /\ vphase = "optimized"
    /\ translator' = [ASMTranslator_init EXCEPT !.filename = functions["Main.main"].filename,
                                        !.function_name = functions["Main.main"].function_name]
    /\ pending' = functions["Main.main"].commands
    /\ vphase' = "lowering"
    /\ UNCHANGED <<functions, parsed, mO, mP, init_vm, out>>
    /\ UNCHANGED cpuvars
    /\ UNCHANGED auxvars

\* Function.translate, one turn of the loop: the next command is lowered
ContextLower ==
    /\ vphase = "lowering"
    /\ pending # << >>
    /\ LET r == translate(translator, Head(pending))
       IN  /\ out' = out \o r.asm
           /\ translator' = r.tr
    /\ pending' = Tail(pending)
    /\ UNCHANGED <<functions, parsed, vphase, mO, mP, init_vm>>
    /\ UNCHANGED cpuvars
    /\ UNCHANGED auxvars

NextContext == ContextInline \/ ContextOptimize \/ ContextEnter \/ ContextLower

SpecContext == InitContext /\ [][NextContext]_vars

---------------------------------------------------------------------------
(* SpecReach: reachable_functions('Sys.init'), one turn of its while loop    *)
(* at a time, on tables in which every callee is defined                     *)

\* most entries in the dependencies of one function
MaxDeps == 2

ReachNames == {"Sys.init", "Main.f", "Main.g"}

\* the dependencies a function may have: a list, as Optimizer.inline leaves it
\* (a name may repeat), or the set Function.append builds, in any order
RECURSIVE DependencyLists(_)
DependencyLists(n) ==
    IF n = 0 THEN { << >> }
    ELSE { << d >> \o l : d \in ReachNames, l \in DependencyLists(n - 1) }

ReachTables ==
    { [n \in ReachNames |->
          [filename |-> "Main", function_name |-> n,
           commands |-> << << "function", n, 0 >> >> \o CallCommands(deps[n])
                        \o << << "return" >> >>,
           dependencies |-> deps[n]]] :
      deps \in [ReachNames -> UNION { DependencyLists(k) : k \in 0 .. MaxDeps }] }

\* a turn of the loop that leaves a name it has seen on the frontier
reachable_iteration_keep(table, sn, fr, ex) ==
    LET function_name == fr[Len(fr)]
        rest == SubSeq(fr, 1, Len(fr) - 1)
    IN  IF function_name \in sn
        THEN [seen |-> sn, frontier |-> fr, expanded |-> ex]
        ELSE [seen |-> sn \cup {function_name},
              frontier |-> rest \o table[function_name].dependencies,
              expanded |-> Append(ex, function_name)]

\* one turn of the while loop: frontier.pop(), the `continue` on a name already
\* seen, else seen.add and frontier.extend
reachable_iteration(table, sn, fr, ex) ==
    LET function_name == fr[Len(fr)]
        rest == SubSeq(fr, 1, Len(fr) - 1)
    IN  IF function_name \in sn
        THEN [seen |-> sn, frontier |-> rest, expanded |-> ex]
        ELSE [seen |-> sn \cup {function_name},
              frontier |-> rest \o table[function_name].dependencies,
              expanded |-> Append(ex, function_name)]

\* seen = set(); frontier = [start_function]
InitReach ==
    /\ functions \in ReachTables
    /\ seen = {}
    /\ frontier = << "Sys.init" >>
    /\ expanded = << >>
    /\ parsed = << >>
    /\ vphase = "idle"
    /\ mO = << >>
    /\ mP = << >>
    /\ ParseIdle
    /\ TrIdle
    /\ CpuIdle

ReachStep ==
    /\ Len(frontier) > 0
    /\ LET r == reachable_iteration(functions, seen, frontier, expanded)
       IN  /\ seen' = r.seen
           /\ frontier' = r.frontier
           /\ expanded' = r.expanded
    /\ UNCHANGED <<fp, returned, pstate>>
    /\ UNCHANGED cpuvars
    /\ UNCHANGED vmvars
    /\ UNCHANGED trvars

NextReach == ReachStep

\* the loop runs on while the frontier is not empty
SpecReach == InitReach /\ [][NextReach]_vars /\ WF_vars(ReachStep)

---------------------------------------------------------------------------
(* Claims on the emitted call/return runtime (SpecAsm) *)

\* the stack pointer when the call sequence in Sys.init starts: the stack base
\* 256, Sys.init's locals, and the arguments pushed
SpAtCall == 256 + scn.nvars + scn.args

\* save_stack has just executed its final jump on behalf of the call in Sys.init
CallDone == scn.kind = "boot" /\ prevpc = scn.saveExit

\* C1: the call sequence followed by save_stack pushes the call site's return
\* address (the label declared after the call sequence) and the caller's LCL,
\* ARG, THIS, THAT, sets ARG = SP - (5 + A) and LCL = SP, and transfers control
\* to the callee's entry label.
C1_CallEntersCallee ==
    CallDone =>
        /\ pc = scn.entry
        /\ ram[SpAtCall] = scn.retLabel
        /\ ram[SpAtCall + 1] = scn.lcl0
        /\ ram[SpAtCall + 2] = scn.arg0
        /\ ram[SpAtCall + 3] = scn.this0
        /\ ram[SpAtCall + 4] = scn.that0
        /\ ram[0] = SpAtCall + 5
        /\ ram[2] = ram[0] - (5 + scn.args)
        /\ ram[1] = ram[0]

\* pop_stack has just executed its final jump
ReturnDone == scn.kind = "return" /\ prevpc = scn.popExit

\* C2: for a frame (return address, LCL, ARG, THIS, THAT) directly below LCL
\* and any argument count (0 included), return writes the callee's top of stack
\* to ARG[0], sets SP = ARG + 1, restores LCL, ARG, THIS, THAT from the frame
\* and jumps to the return address saved at LCL-5.
C2_ReturnRestoresFrame ==
    ReturnDone =>
        /\ ram[scn.base] = scn.result
        /\ ram[0] = scn.base + 1
        /\ ram[1] = scn.lcl0
        /\ ram[2] = scn.arg0
        /\ ram[3] = scn.this0
        /\ ram[4] = scn.that0
        /\ pc = scn.ret0

\* a return with no arguments, where ARG[0] is the slot of the return address
C2_Witness ==
    /\ ReturnDone
    /\ scn.args = 0
    /\ pc = scn.ret0
    /\ ram[scn.base] = scn.result
    /\ scn.result # scn.ret0

\* control is at Sys.init's first instruction
AtSysInit == scn.kind = "boot" /\ pc = scn.sysInit

\* C10 as stated: the prologue sets SP to 256 and enters Sys.init through the
\* call sequence: a return address and the four segment pointers are pushed
\* and ARG and LCL are set before Sys.init's first instruction executes.
C10_InitCallsSysInit ==
    AtSysInit =>
        /\ ram[0] = 256 + 5
        /\ ram[256 + 1] = scn.lcl0
        /\ ram[256 + 2] = scn.arg0
        /\ ram[256 + 3] = scn.this0
        /\ ram[256 + 4] = scn.that0
        /\ ram[1] = ram[0]
        /\ ram[2] = ram[0] - 5

\* C10 amended: the prologue sets SP to 256 and jumps straight to Sys.init:
\* when Sys.init's first instruction executes nothing has been pushed, and LCL,
\* ARG, THIS, THAT hold what they held at power-on.
C10_InitJumpsToSysInit ==
    AtSysInit =>
        /\ prevpc = scn.initJump
        /\ ram[0] = 256
        /\ \A a \in 256 .. 256 + 4 : ram[a] = 0
        /\ ram[1] = scn.lcl0
        /\ ram[2] = scn.arg0
        /\ ram[3] = scn.this0
        /\ ram[4] = scn.that0

\* Sys.init entered from the prologue, with segment pointers that are not zero
C10_Witness ==
    /\ AtSysInit
    /\ prevpc = scn.initJump
    /\ ram[0] = 256
    /\ scn.lcl0 # 0
    /\ scn.arg0 # 0

---------------------------------------------------------------------------
(* Claims on the peephole pass (SpecOpt) *)

BothRan == vphase = "rewritten" /\ mO.status = "done" /\ Terminal(mP)

\* what a run leaves that the program can observe
Observable(m) == << m.status, m.stack, m.temp, m.static, m.ptr, m.heap, m.exit >>

\* C3: the list produced by the full peephole pass yields the same final
\* stack, the same segment memory and the same branch taken as the input list.
C3_PeepholePreserves ==
    BothRan => Observable(mP) = Observable(mO)

---------------------------------------------------------------------------
(* Claims on the inlining pass (SpecInline) *)

\* the call site of Main.main was replaced by an inlined body
Inlined ==
    /\ vphase = "rewritten"
    /\ \E k \in 1 .. Len(functions["Main.main"].commands) :
            functions["Main.main"].commands[k][1] = "inline-call"

\* the call with the callee's return has run, and so has the inlined sequence
InlineRan == Inlined /\ mO.status = "done" /\ Terminal(mP)

\* C4: for each accessor shape and every argument count written at the call
\* site, the inlined replacement leaves the caller's stack with the same
\* height and the same top value as the call followed by the callee's return.
C4_InlineSameStack ==
    InlineRan =>
        /\ mP.status = "done"
        /\ Len(mP.stack) = Len(mO.stack)
        /\ Top(mP.stack) = Top(mO.stack)

\* C5: after an inlined member accessor the caller's THIS and THAT hold the
\* values they hold after the call and return.
C5_InlineKeepsPointers ==
    (InlineRan /\ is_member_accessor(parsed["Acc.get"].commands)) =>
        mP.ptr = mO.ptr

---------------------------------------------------------------------------
(* Claims on translate (SpecTranslate) *)

\* the functions whose (Name) label is in the output
EmittedFunctions ==
    { n \in DOMAIN functions : \E i \in 1 .. Len(out) : out[i] = Lbl(n) }

\* the names a command list calls
CalleesOf(commands) ==
    { commands[k][2] : k \in { j \in 1 .. Len(commands) :
                                    commands[j][1] \in {"call", "call-ext"} } }

\* the least set holding S and the callees of each of its members
RECURSIVE ReachableFrom(_, _)
ReachableFrom(table, S) ==
    LET T == S \cup UNION { CalleesOf(table[f].commands) : f \in S }
    IN  IF T = S THEN S ELSE ReachableFrom(table, T)

\* C6: the functions whose bodies are emitted are exactly those transitively
\* reachable from Sys.init over the calls left after the inlining pass; no
\* function outside that set has its (Name) label in the output.
C6_EmittedAreReachable ==
    vphase \in {"emit", "done"} =>
        /\ EmittedFunctions \subseteq ReachableFrom(functions, {"Sys.init"})
        /\ vphase = "done" => EmittedFunctions = ReachableFrom(functions, {"Sys.init"})

\* a finished translation that emitted several functions, dropped Acc.get
\* because its every call site was inlined, and dropped an uncalled function
C6_Witness ==
    /\ vphase = "done"
    /\ Cardinality(EmittedFunctions) >= 2
    /\ "Acc.get" \in ReachableFrom(parsed, {"Sys.init"})
    /\ "Acc.get" \notin EmittedFunctions
    /\ \E n \in DOMAIN parsed : n \notin ReachableFrom(parsed, {"Sys.init"})

\* the names in one fixed order, and a run of translate whose three loops
\* visit their sets in that order
NameOrder == << "Sys.init", "Main.f", "Main.g", "Acc.get" >>

InOrder(S) == SelectSeq(NameOrder, LAMBDA n : n \in S)

RECURSIVE InlineAll(_, _, _)
InlineAll(table, order, i) ==
    IF i > Len(order) THEN table
    ELSE InlineAll([table EXCEPT ![order[i]] = inline(@, table)], order, i + 1)

RECURSIVE OptimizeAll(_, _, _)
OptimizeAll(table, order, i) ==
    IF i > Len(order) THEN table
    ELSE OptimizeAll([table EXCEPT ![order[i]].commands = optimize(@)], order, i + 1)

RECURSIVE EmitAll(_, _, _, _)
EmitAll(tr, table, order, i) ==
    IF i > Len(order) THEN << >>
    ELSE LET r == Function_translate(tr, table[order[i]])
         IN  r.asm \o EmitAll(r.tr, table, order, i + 1)

OutputInNameOrder ==
    LET t1 == InlineAll(parsed, InOrder(reachable_functions(parsed, "Sys.init")), 1)
        t2 == OptimizeAll(t1, InOrder(reachable_functions(t1, "Sys.init")), 1)
        pre == IF init_vm THEN _init_vm(ASMTranslator_init)
               ELSE [asm |-> << >>, tr |-> ASMTranslator_init]
    IN  pre.asm \o EmitAll(pre.tr, t2, InOrder(reachable_functions(t2, "Sys.init")), 1)

\* C7: for a fixed input program every run of translate writes the same
\* output: the one written when the sets are visited in name order.
C7_SameOutputEveryRun ==
    vphase = "done" => out = OutputInNameOrder

\* the (LABEL) lines of the output, in order
LabelLines == SelectSeq(out, LAMBDA line : line[1] = "L")

\* C8: function names being unique and branch labels unique within each
\* function, every (LABEL) line of the output is distinct.
C8_LabelsDistinct ==
    vphase = "done" =>
        \E labels \in { LabelLines } :
            \A i \in 1 .. Len(labels) : \A j \in 1 .. Len(labels) :
                i # j => labels[i] # labels[j]

\* how many lines of the output are `line`
Count(line) == Cardinality({ i \in 1 .. Len(out) : out[i] = line })

\* C9: in every output that contains a jump to save_stack or pop_stack the
\* labels (save_stack) and (pop_stack) are each defined exactly once.
C9_RuntimeDefinedOnce ==
    (/\ vphase = "done"
     /\ \E i \in 1 .. Len(out) : out[i] \in { At("save_stack"), At("pop_stack") }) =>
        /\ Count(Lbl("save_stack")) = 1
        /\ Count(Lbl("pop_stack")) = 1

---------------------------------------------------------------------------
(* Claims on unresolved callees (SpecResolve) *)

\* the functions of the table reachable from Sys.init over the calls written
\* in the commands, names outside the table not followed
RECURSIVE DefinedReach(_, _)
DefinedReach(table, S) ==
    LET T == S \cup (UNION { CalleesOf(table[f].commands) : f \in S } \cap DOMAIN table)
    IN  IF T = S THEN S ELSE DefinedReach(table, T)

\* some function reachable from Sys.init calls a name not in the table
UnresolvedReachable(table) ==
    \E f \in DefinedReach(table, {"Sys.init"}) :
        ~(CalleesOf(table[f].commands) \subseteq DOMAIN table)

\* C11: translation fails, and never emits a function body, exactly when some
\* function reachable from Sys.init in the call graph as parsed contains a
\* call or call-ext whose target is not in the function table; an unresolved
\* target in unreachable functions only causes no error.
C11_FailsIffUnresolvedReachable ==
    /\ vphase # "start" => (vphase = "failed" <=> UnresolvedReachable(parsed))
    /\ UnresolvedReachable(parsed) => out = << >>

\* a failed translation where the unresolved call is not in Sys.init itself
C11_Witness ==
    /\ vphase = "failed"
    /\ out = << >>
    /\ CalleesOf(parsed["Sys.init"].commands) \subseteq DOMAIN parsed
    /\ \E f \in DOMAIN parsed : ~(CalleesOf(parsed[f].commands) \subseteq DOMAIN parsed)

---------------------------------------------------------------------------
(* Claims on the parser (SpecParse) *)

\* the lines a call of __next__ has read
LinesRead == SubSeq(fp, 1, Len(fp) - Len(fp'))

\* C12: a non-empty line whose token count is outside 1..5 makes parsing fail
\* with an error: the parser does not skip the line and go on to return the
\* command of a later line.
C12_LongLineFails ==
    [][(\E i \in 1 .. Len(LinesRead) : Len(components_of(LinesRead[i])) > 5)
          => pstate' = "error"]_vars

---------------------------------------------------------------------------
(* Claims on single peephole rules (SpecOpt) *)

\* the list rule 10 is given: the parsed list after rules 1 to 9
Rule10Input == rewrite_upto(9, parsed["Main.main"].commands)

\* L scanned left to right, each window `pop X; push X'` replaced by `tee X`
\* where X = X' (identical) or where X # X' (not identical)
RECURSIVE TeeWhere(_, _)
TeeWhere(L, identical) ==
    IF Len(L) < 2 THEN L
    ELSE IF /\ L[1][1] = "pop"
            /\ L[2][1] = "push"
            /\ ((L[1][2] = L[2][2] /\ L[1][3] = L[2][3]) <=> identical)
    THEN << << "tee", L[1][2], L[1][3] >> >> \o TeeWhere(SubSeq(L, 3, Len(L)), identical)
    ELSE << L[1] >> \o TeeWhere(Tail(L), identical)

\* C13 as stated: rule 10 rewrites `pop X; push X'` to `tee X` only when X
\* and X' differ; a window with identical segment and index is left unchanged.
C13_TeeWhenDifferent ==
    vphase = "rewritten" =>
        functions["Main.main"].commands = rewrite(11, TeeWhere(Rule10Input, FALSE))

\* C13 amended: rule 10 rewrites `pop X; push X'` to `tee X` only when X and
\* X' are identical; a window whose pop and push differ is left unchanged.
C13_TeeWhenIdentical ==
    vphase = "rewritten" =>
        functions["Main.main"].commands = rewrite(11, TeeWhere(Rule10Input, TRUE))

\* `pop temp 0; push temp 0` reached rule 10 and the result holds `tee temp 0`,
\* while a `pop temp 1` of the same list stays
C13_Witness ==
    /\ vphase = "rewritten"
    /\ \E i \in 1 .. Len(Rule10Input) - 1 :
          /\ Rule10Input[i] = << "pop", "temp", 0 >>
          /\ Rule10Input[i + 1] = << "push", "temp", 0 >>
    /\ \E i \in 1 .. Len(functions["Main.main"].commands) :
          functions["Main.main"].commands[i] = << "tee", "temp", 0 >>
    /\ \E i \in 1 .. Len(functions["Main.main"].commands) :
          functions["Main.main"].commands[i] = << "pop", "temp", 1 >>

\* some window of the list matches rule `rule`
SomeWindowMatches(rule, L) ==
    \E i \in 1 .. Len(L) - Len(RuleExpr(rule)) + 1 :
        RuleMatch(rule, SubSeq(L, i, i + Len(RuleExpr(rule)) - 1))

\* C14: no window of the output of optimize matches any of the eleven rule
\* patterns, and optimize applied to its own output leaves it unchanged.
C14_OnePassIsFixpoint ==
    vphase = "rewritten" =>
        /\ \A rule \in 1 .. 11 : ~SomeWindowMatches(rule, functions["Main.main"].commands)
        /\ optimize(functions["Main.main"].commands) = functions["Main.main"].commands

\* L scanned left to right, each window `opcode; not` whose first command is
\* exactly `opcode` replaced by `fused`
RECURSIVE FuseNot(_, _, _)
FuseNot(L, opcode, fused) ==
    IF Len(L) < 2 THEN L
    ELSE IF L[1] = << opcode >> /\ L[2] = << "not" >>
    THEN << << fused >> >> \o FuseNot(SubSeq(L, 3, Len(L)), opcode, fused)
    ELSE << L[1] >> \o FuseNot(Tail(L), opcode, fused)

\* the parsed list opens with `lt; not; not`
StartsLtNotNot ==
    /\ Len(parsed["Main.main"].commands) >= 4
    /\ SubSeq(parsed["Main.main"].commands, 2, 4) = << << "lt" >>, << "not" >>, << "not" >> >>

\* C15: rule 5 fires only on a window whose first command is `lt` and rule 6
\* only on one whose first command is `gt`; a synthesized `gte` or `lte`
\* followed by `not` is not rewritten, so for `lt; not; not` the output is a
\* comparison equivalent to `lt` (`gte; not`).
C15_ExactOpcodeMatch ==
    vphase = "rewritten" =>
        LET L5 == rewrite_upto(4, parsed["Main.main"].commands)
            L6 == rewrite_upto(5, parsed["Main.main"].commands)
        IN  /\ rewrite(5, L5) = FuseNot(L5, "lt", "gte")
            /\ rewrite(6, L6) = FuseNot(L6, "gt", "lte")
            /\ StartsLtNotNot =>
                 SubSeq(functions["Main.main"].commands, 2, 3) = << << "gte" >>, << "not" >> >>

---------------------------------------------------------------------------
(* Claims on the fused compare-and-branch (SpecFused) *)

\* the branch of the run has executed
BranchDone == prevpc \in scn.exits

\* C16: when the lowering of `if-CMP-goto X L` has run from a stack whose top
\* is y, the stack pointer is one below where it started, no other cell of
\* memory has changed (no boolean was written), and control is at Main.main$L
\* exactly when y CMP X holds in the sense of the compare commands (the sign,
\* or zero, of the 16-bit difference y - X); the unfused
\* `push X; CMP; if-goto L` ends with the same stack pointer and at the same
\* place.
C16_FusedBranch ==
    BranchDone =>
        /\ (pc = scn.target) <=> Compare(scn.cmp, scn.y, scn.x)
        /\ pc \in {scn.target, scn.target - 1}
        /\ ram[0] = scn.ram0[0] - 1
        /\ scn.kind = "fused" =>
              /\ Len(scn.commands) = 1
              /\ scn.commands[1] = << "if-" \o scn.cmp \o "-goto",
                                      scn.operand[1], scn.operand[2], "L" >>
              /\ \A a \in 1 .. RamSize - 1 : ram[a] = scn.ram0[a]

\* a fused `if-lt-goto` on a memory operand equal to the top of the stack has
\* run and fallen through
C16_Witness ==
    /\ BranchDone
    /\ scn.kind = "fused"
    /\ scn.cmp = "lt"
    /\ scn.operand = << "this", 2 >>
    /\ scn.y = W - 1
    /\ scn.x = W - 1
    /\ pc = scn.target - 1

---------------------------------------------------------------------------
(* Claims on the naming context (SpecContext) *)

IsMarker(command) == command[1] \in {"inline-call", "inline-return"}

\* the commands that name a static cell
IsStaticAccess(command) ==
    \/ command[1] \in {"push", "pop", "ldd", "sdd", "tee"} /\ command[2] = "static"
    \/ command[1] \in FusedCompares /\ command[2] = "static"

\* the commands whose lowering names a label of the function
NamesLabel(command) ==
    command[1] \in {"label", "goto", "if-goto", "if-goto-not", "call", "call-ext"}
                   \cup FusedCompares

InlinedCaller == inline(parsed["Main.main"], parsed).commands

\* every inline-call of the list is followed, before any other marker, by an
\* inline-return naming Main and Main.main
MarkersPaired(commands) ==
    \A i \in 1 .. Len(commands) :
        commands[i][1] = "inline-call" =>
            \E j \in i + 1 .. Len(commands) :
                /\ commands[j] = << "inline-return", "Main", "Main.main" >>
                /\ \A k \in i + 1 .. j - 1 : ~IsMarker(commands[k])

\* C17: in the list left by both passes the markers are those the inlining
\* pass wrote, in the same order, each inline-call followed by the
\* inline-return of the caller; and whenever a command is about to be lowered,
\* a static access of the callee (static 0) finds the callee's filename in the
\* emitter, while a static access of the caller (static 1, static 2) and every
\* command that names a label or a return address find the caller's filename
\* and function name; so no line written names Main.0, Acc.1 or Acc.2, or a
\* label of an Acc function.
C17_NamingContext ==
    /\ vphase \in {"optimized", "lowering"} =>
          /\ SelectSeq(functions["Main.main"].commands, IsMarker)
                = SelectSeq(InlinedCaller, IsMarker)
          /\ MarkersPaired(functions["Main.main"].commands)
    /\ (vphase = "lowering" /\ pending # << >>) =>
          LET c == Head(pending) IN
          /\ (IsStaticAccess(c) /\ c[3] = 0) => translator.filename = "Acc"
          /\ (IsStaticAccess(c) /\ c[3] # 0) => translator.filename = "Main"
          /\ NamesLabel(c) => /\ translator.filename = "Main"
                              /\ translator.function_name = "Main.main"
    /\ \A i \in 1 .. Len(out) :
          out[i][2] \notin {"Main.0", "Acc.1", "Acc.2", "Acc.gets$A", "Acc.getc$A",
                            "Acc.getm$A", "Acc.gets$ret.0", "Acc.getc$ret.0",
                            "Acc.getm$ret.0"}

\* the callee's `push static 0` is about to be lowered in the callee's
\* context, in a caller whose own `push static 1` rule 9 turned into a load
\* in front of an inline-call marker
C17_Witness ==
    /\ vphase = "lowering"
    /\ pending # << >>
    /\ Head(pending) = << "push", "static", 0 >>
    /\ translator.filename = "Acc"
    /\ functions["Main.main"].commands[2] = << "ldd", "static", 1 >>
    /\ functions["Main.main"].commands[3][1] = "inline-call"

---------------------------------------------------------------------------
(* Claims on window_replace (SpecOpt) *)

\* the scan by position: from p on, a matching window seq[p .. p+n-1] is
\* replaced and the scan goes on at p + n, anything else is copied and the
\* scan goes on at p + 1; fewer than n commands left are copied
RECURSIVE LeftmostScan(_, _, _, _)
LeftmostScan(seq, rule, n, p) ==
    IF p + n - 1 > Len(seq) THEN SubSeq(seq, p, Len(seq))
    ELSE IF RuleMatch(rule, SubSeq(seq, p, p + n - 1))
    THEN RuleReplace(rule, SubSeq(seq, p, p + n - 1)) \o LeftmostScan(seq, rule, n, p + n)
    ELSE << seq[p] >> \o LeftmostScan(seq, rule, n, p + 1)

\* the eleven scans in order
RECURSIVE ScanUpto(_, _)
ScanUpto(rule, commands) ==
    IF rule = 0 THEN commands
    ELSE LeftmostScan(ScanUpto(rule - 1, commands), rule, Len(RuleExpr(rule)), 1)

\* the pass has run and neither list has been run yet
JustRewritten == vphase = "rewritten" /\ mO = mP

---------------------------------------------------------------------------
(* Claims on reachable_functions (SpecReach) *)

\* the least set holding the names of S and the dependencies of its members
RECURSIVE ClosureOf(_, _)
ClosureOf(table, S) ==
    LET U == S \cup { d \in ReachNames :
                        \E f \in S : \E k \in 1 .. Len(table[f].dependencies) :
                            table[f].dependencies[k] = d }
    IN  IF U = S THEN S ELSE ClosureOf(table, U)

NoRepeat(list) == \A i, j \in 1 .. Len(list) : list[i] = list[j] => i = j

\* the loop has ended: reachable_functions returns `seen`
ReachReturned ==
    /\ frontier = << >>
    /\ seen # {}

\* C19: on every table whose callees are all defined the loop ends, and what
\* it returns is the closure of {Sys.init} under the dependencies (the same
\* set the one-piece reachable_functions gives), no name having been expanded
\* twice.
C19_TerminatesWithClosure ==
    <>(/\ ReachReturned
       /\ seen = ClosureOf(functions, {"Sys.init"})
       /\ seen = reachable_functions(functions, "Sys.init")
       /\ NoRepeat(expanded)
       /\ { expanded[i] : i \in 1 .. Len(expanded) } = seen)

\* the loop has ended on a table where Sys.init calls itself and Main.f, and
\* Main.f and Main.g call each other
C19_Witness ==
    /\ ReachReturned
    /\ functions["Sys.init"].dependencies = << "Sys.init", "Main.f" >>
    /\ functions["Main.f"].dependencies = << "Main.g" >>
    /\ functions["Main.g"].dependencies = << "Main.f", "Main.g" >>
    /\ seen = ReachNames

---------------------------------------------------------------------------
(* Claims on branch targets (SpecOpt) *)

\* the label a branch command names
BranchTarget(command) ==
    IF command[1] \in FusedCompares THEN command[4] ELSE command[2]

IsBranch(command) ==
    command[1] \in {"goto", "if-goto", "if-goto-not"} \cup FusedCompares

\* every label a branch of the list names is declared by a label command of
\* the list
TargetsDeclared(commands) ==
    \A i \in 1 .. Len(commands) :
        IsBranch(commands[i]) =>
            \E j \in 1 .. Len(commands) :
                commands[j] = << "label", BranchTarget(commands[i]) >>

\* C20: if every branch of the list as parsed names a label the list
\* declares, so does every branch of the list the peephole pass leaves.
C20_NoDanglingTarget ==
    (vphase = "rewritten" /\ TargetsDeclared(parsed["Main.main"].commands))
        => TargetsDeclared(functions["Main.main"].commands)

====
